---- MODULE Spec2Model ----
(***************************************************************************)
(* Samsung S5K3L6XX camera sensor driver                                   *)
(* (drivers/media/i2c/s5k3l6xx.c): register transport with its sticky      *)
(* error, mode catalog and format negotiation, debug override table, and   *)
(* the power / streaming state machine.                                    *)
(*                                                                         *)
(* A handler is one action.  The C statements of a handler are threaded    *)
(* through a record m ("machine") holding the fields of struct s5k3l6xx,   *)
(* the hardware the driver drives, the trace of the calls the handler      *)
(* makes to its collaborators (bus, regulator, clock, GPIO, runtime PM)    *)
(* and the outcomes the collaborators produce in this call.                *)
(***************************************************************************)
EXTENDS Integers, Sequences, FiniteSets, TLC

(***************************************************************************)
(* Bounds of the model.                                                    *)
(***************************************************************************)
\* Longest debug override table the lifecycle specifications build.
MaxOverrides == 2
\* Range of the runtime-PM usage counter: -MaxPmRefs .. MaxPmRefs.
MaxPmRefs == 2
\* Largest enable count of the regulator and of the clock.
MaxEnable == 2
\* A bus fault hits one of the first MaxFaultPos transactions of a handler.
MaxFaultPos == 40

(***************************************************************************)
(* Program constants.                                                      *)
(***************************************************************************)
S5K3L6XX_REG_LANE_MODE == 276                    \* 0x0114
S5K3L6XX_REG_COARSE_INTEGRATION_TIME == 514      \* 0x0202
S5K3L6XX_REG_ANALOG_GAIN == 516                  \* 0x0204
S5K3L6XX_REG_DIGITAL_GAIN == 526                 \* 0x020e
S5K3L6XX_REG_TEST_PATTERN_MODE == 1537           \* 0x0601
S5K3L6XX_TEST_PATTERN_SOLID_COLOR == 1
S5K3L6XX_REG_TEST_DATA_RED == 1538               \* 0x0602
S5K3L6XX_REG_TEST_DATA_GREENR == 1540            \* 0x0604
S5K3L6XX_REG_TEST_DATA_BLUE == 1542              \* 0x0606
S5K3L6XX_REG_TEST_DATA_GREENB == 1544            \* 0x0608
S5K3L6XX_REG_AF == 13315                         \* 0x3403
S5K3L6XX_REG_MODE_SELECT == 256                  \* 0x100
S5K3L6XX_MODE_STREAMING == 1
S5K3L6XX_MODE_STANDBY == 0
S5K3L6XX_REG_DATA_FORMAT == 274                  \* 0x0112
S5K3L6XX_DATA_FORMAT_RAW8 == 2056                \* 0x0808
REGSTABLE_SIZE == 4096

EBUSY == 16
EINVAL == 22
EFBIG == 27

\* Media bus codes and colorspaces a caller can put in a format request.
MEDIA_BUS_FMT_SGRBG8_1X8 == 12290                \* 0x3002
V4L2_COLORSPACE_DEFAULT == 0
V4L2_COLORSPACE_RAW == 11
V4L2_FIELD_NONE == 1
V4L2_SUBDEV_FORMAT_TRY == 0
V4L2_SUBDEV_FORMAT_ACTIVE == 1

(***************************************************************************)
(* Register programs: <<address, value, size>>.                            *)
(***************************************************************************)
frame_1052x780px_8bit_xfps_2lane ==
  << <<310, 6400, 2>>,      \* 0x0136 := 0x1900
     <<844, 1052, 2>>,      \* 0x034c := 0x041c
     <<834, 4896, 2>>,      \* 0x0342 := 0x1320
     <<846, 780, 2>>,       \* 0x034e := 0x030c
     <<782, 54, 2>>,        \* 0x030e := 0x0036
     <<838, 0, 2>>,         \* 0x0346 := 0x0000
     <<842, 3120, 2>>,      \* 0x034a := 0x0c30
     <<836, 8, 2>>,         \* 0x0344 := 0x0008
     <<840, 4215, 2>>,      \* 0x0348 := 0x1077
     <<2304, 1, 1>>,        \* 0x0900 := 0x01
     <<2305, 68, 1>>,       \* 0x0901 := 0x44
     <<903, 7, 1>>,         \* 0x0387 := 0x07
     <<12404, 2420, 2>> >>  \* 0x3074 := 0x0974

frame_2104x1560px_8bit_xfps_2lane ==
  << <<310, 6400, 2>>,      \* 0x0136 := 0x1900
     <<844, 2104, 2>>,      \* 0x034c := 0x0838
     <<846, 1560, 2>>,      \* 0x034e := 0x0618
     <<782, 83, 2>>,        \* 0x030e := 0x0053
     <<838, 0, 2>>,         \* 0x0346 := 0x0000
     <<842, 3120, 2>>,      \* 0x034a := 0x0c30
     <<836, 0, 2>>,         \* 0x0344 := 0x0000
     <<840, 4200, 2>>,      \* 0x0348 := 0x1068
     <<2304, 1, 1>>,        \* 0x0900 := 0x01
     <<2305, 34, 1>>,       \* 0x0901 := 0x22
     <<903, 3, 1>>,         \* 0x0387 := 0x03
     <<12404, 2420, 2>>,    \* 0x3074 := 0x0974
     <<13315, 70, 1>> >>    \* 0x3403 := 0x42 | 0b100

frame_4208x3120px_8bit_xfps_2lane ==
  << <<310, 6400, 2>>,      \* 0x0136 := 0x1900
     <<844, 4208, 2>>,      \* 0x034c := 0x1070
     <<846, 3120, 2>>,      \* 0x034e := 0x0c30
     <<782, 51, 2>>,        \* 0x030e := 0x0033
     <<838, 0, 2>>,         \* 0x0346 := 0x0000
     <<842, 3120, 2>>,      \* 0x034a := 0x0c30
     <<836, 0, 2>>,         \* 0x0344 := 0x0000
     <<840, 4200, 2>>,      \* 0x0348 := 0x1068
     <<834, 13824, 2>>,     \* 0x0342 := 0x3600
     <<12404, 2423, 2>>,    \* 0x3074 := 0x0977
     <<13315, 70, 1>> >>    \* 0x3403 := 0x42 | 0b100

no_regs == << >>

\* Mutation of s5k3l6xx_frame_debug: the frame has the smallest mode's
\* register list.
frame_debug_with_regs ==
  [ name |-> "debug_empty", width |-> 640, height |-> 480,
    code |-> MEDIA_BUS_FMT_SGRBG8_1X8,
    streamregs |-> frame_1052x780px_8bit_xfps_2lane ]

\* The debug frame: any size is accepted, no mode register is written.
s5k3l6xx_frame_debug ==
  [ name |-> "debug_empty", width |-> 640, height |-> 480,
    code |-> MEDIA_BUS_FMT_SGRBG8_1X8, streamregs |-> no_regs ]

\* The mode catalog.  C index i is s5k3l6xx_frames[i + 1].
s5k3l6xx_frames ==
  << [ name |-> "1:4 8bpp ?fps", width |-> 1052, height |-> 780,
       code |-> MEDIA_BUS_FMT_SGRBG8_1X8,
       streamregs |-> frame_1052x780px_8bit_xfps_2lane ],
     [ name |-> "1:2 8bpp +fps", width |-> 2104, height |-> 1560,
       code |-> MEDIA_BUS_FMT_SGRBG8_1X8,
       streamregs |-> frame_2104x1560px_8bit_xfps_2lane ],
     [ name |-> "1:1 8bpp ?fps", width |-> 4208, height |-> 3120,
       code |-> MEDIA_BUS_FMT_SGRBG8_1X8,
       streamregs |-> frame_4208x3120px_8bit_xfps_2lane ] >>

\* Fixed post-mode registers written by every stream start.
setstream ==
  << <<S5K3L6XX_REG_DATA_FORMAT, S5K3L6XX_DATA_FORMAT_RAW8, 2>>,
     <<12410, 3328, 2>> >>  \* 0x307a := 0x0d00, noise-reduction override

\* state->frame_fmt points at a catalog entry (its C index) or at the debug
\* frame.
FrameDebug == Len(s5k3l6xx_frames)
FrameRefs == 0 .. FrameDebug
Frame(ref) == IF ref = FrameDebug THEN s5k3l6xx_frame_debug
              ELSE s5k3l6xx_frames[ref + 1]

(***************************************************************************)
(* The machine record threaded through a handler.                          *)
(*   dev    fields of struct s5k3l6xx                                      *)
(*   hw     what the handler's collaborators hold for the device           *)
(*   debug  the module parameter "debug"                                   *)
(*   trace  calls made to collaborators so far, <<tag, a, b, result>>      *)
(*   n      bus transactions issued so far                                 *)
(*   in     what the collaborators answer in this call                     *)
(* A function that returns a value returns [ret |-> value, m |-> machine]. *)
(***************************************************************************)
Ev(m, tag, a, b, ret) == [m EXCEPT !.trace = Append(@, <<tag, a, b, ret>>)]

\* i2c_transfer(): the n-th transaction of the call returns the number of
\* messages it was given unless the fault plan names it.
i2c_transfer(m, num) ==
  IF m.n + 1 = m.in.plan.k THEN m.in.plan.r ELSE num

Bus(m, tag, a, b, ret) == [Ev(m, tag, a, b, ret) EXCEPT !.n = @ + 1]

\* if (ret != num) state->error = ret;
latch_error(m, ret, num) ==
  IF ret # num THEN [m EXCEPT !.dev.error = ret] ELSE m

transfer_done(m, tag, a, b, ret, num) ==
  latch_error(Bus(m, tag, a, b, ret), ret, num)

transfer(m, tag, a, b, num) ==
  transfer_done(m, tag, a, b, i2c_transfer(m, num), num)

\* The value returned by the read is used for log messages only and is not
\* modelled.
s5k3l6xx_i2c_read(m, addr) ==
  IF m.dev.error # 0 THEN m ELSE transfer(m, "rd", addr, 0, 2)

\* The write, then the read-back through s5k3l6xx_i2c_read.
s5k3l6xx_i2c_write(m, addr, val) ==
  IF m.dev.error # 0 THEN m
  ELSE s5k3l6xx_i2c_read(transfer(m, "w1", addr, val, 1), addr)

\* Mutation of s5k3l6xx_i2c_write2: the latch is not looked at.
i2c_write2_unlatched(m, addr, val) == transfer(m, "w2", addr, val, 1)

s5k3l6xx_i2c_write2(m, addr, val) ==
  IF m.dev.error # 0 THEN m ELSE transfer(m, "w2", addr, val, 1)

RECURSIVE submit_regs_from(_, _, _)
submit_regs_from(m, regs, i) ==
  IF i > Len(regs) THEN m
  ELSE submit_regs_from(
         IF regs[i][3] = 2
         THEN s5k3l6xx_i2c_write2(m, regs[i][1], regs[i][2])
         ELSE s5k3l6xx_i2c_write(m, regs[i][1], regs[i][2] % 256),
         regs, i + 1)

s5k3l6xx_submit_regs(m, regs) == submit_regs_from(m, regs, 1)

\* s5k3l6xx_read(): 0 while an error is latched; otherwise what the buffer
\* holds after the transfer (in.res): the register's value, or, the buffer
\* being uninitialized, anything when the transfer failed.
s5k3l6xx_read(m, addr) ==
  [ret |-> IF m.dev.error # 0 THEN 0 ELSE m.in.res,
   m |-> s5k3l6xx_i2c_read(m, addr)]

s5k3l6xx_write(m, addr, val) == s5k3l6xx_i2c_write(m, addr, val)

submit_regstable_entry(m, e) ==
  s5k3l6xx_i2c_write(
    IF m.debug >= 5 THEN s5k3l6xx_i2c_read(m, e.address) ELSE m,
    e.address, e.value)

RECURSIVE submit_regstable_from(_, _, _)
submit_regstable_from(m, regs, i) ==
  IF i > regs.entry_count THEN m
  ELSE submit_regstable_from(submit_regstable_entry(m, regs.entries[i]),
                             regs, i + 1)

s5k3l6xx_submit_regstable(m, regs) == submit_regstable_from(m, regs, 1)

\* Returns the latched error and resets the latch.
s5k3l6xx_clear_error(m) ==
  [ret |-> m.dev.error, m |-> [m EXCEPT !.dev.error = 0]]

\* v4l2_dbg(3, ..., "Setting frame format %s", frame_fmt->name)
set_config_dbg(m) == Ev(m, "Setting frame format", m.dev.frame_fmt, 0, 0)

\* Mutation of s5k3l6xx_hw_set_config: the debug overrides are submitted
\* before the mode's registers.
hw_set_config_overrides_first(m) ==
  s5k3l6xx_write(
    s5k3l6xx_submit_regs(
      s5k3l6xx_submit_regs(
        s5k3l6xx_submit_regstable(set_config_dbg(m), m.dev.debug_regs),
        Frame(m.dev.frame_fmt).streamregs),
      setstream),
    S5K3L6XX_REG_LANE_MODE, (m.dev.nlanes - 1) % 256)

\* Mutation of s5k3l6xx_hw_set_config: the debug overrides are submitted
\* only at debug level 5.
hw_set_config_gated(m) ==
  IF m.debug >= 5
  THEN s5k3l6xx_submit_regstable(
         s5k3l6xx_write(
           s5k3l6xx_submit_regs(
             s5k3l6xx_submit_regs(set_config_dbg(m),
                                  Frame(m.dev.frame_fmt).streamregs),
             setstream),
           S5K3L6XX_REG_LANE_MODE, (m.dev.nlanes - 1) % 256),
         m.dev.debug_regs)
  ELSE s5k3l6xx_write(
         s5k3l6xx_submit_regs(
           s5k3l6xx_submit_regs(set_config_dbg(m),
                                Frame(m.dev.frame_fmt).streamregs),
           setstream),
         S5K3L6XX_REG_LANE_MODE, (m.dev.nlanes - 1) % 256)

s5k3l6xx_hw_set_config(m) ==
  s5k3l6xx_submit_regstable(
    s5k3l6xx_write(
      s5k3l6xx_submit_regs(
        s5k3l6xx_submit_regs(set_config_dbg(m),
                             Frame(m.dev.frame_fmt).streamregs),
        setstream),
      S5K3L6XX_REG_LANE_MODE, (m.dev.nlanes - 1) % 256),
    m.dev.debug_regs)

s5k3l6xx_hw_set_test_pattern(m, id) ==
  s5k3l6xx_write(m, S5K3L6XX_REG_TEST_PATTERN_MODE, id % 256)

s5k3l6xx_hw_set_stream(m, enable) ==
  s5k3l6xx_i2c_write(m, S5K3L6XX_REG_MODE_SELECT,
                     IF enable THEN S5K3L6XX_MODE_STREAMING
                     ELSE S5K3L6XX_MODE_STANDBY)

(***************************************************************************)
(* Mode catalog and format negotiation.                                    *)
(***************************************************************************)
Abs(x) == IF x < 0 THEN 0 - x ELSE x

SizeError(f, width, height) == Abs(f.width - width) + Abs(f.height - height)

\* v4l2_find_nearest_size(): the 1-based position of the entry of the
\* catalog nearest in size to the request, the first-listed of equally
\* near ones.
v4l2_find_nearest_size(frames, width, height) ==
  CHOOSE i \in 1 .. Len(frames) :
    /\ \A j \in 1 .. Len(frames) :
         SizeError(frames[i], width, height) <= SizeError(frames[j], width, height)
    /\ \A j \in 1 .. (i - 1) :
         SizeError(frames[j], width, height) > SizeError(frames[i], width, height)

\* The C index of the first catalog entry with mf's size and code, -1 if
\* there is none or the colorspace is neither DEFAULT nor RAW.
RECURSIVE find_pixfmt_from(_, _)
find_pixfmt_from(mf, i) ==
  IF i >= Len(s5k3l6xx_frames) THEN -1
  ELSE IF /\ mf.colorspace # V4L2_COLORSPACE_DEFAULT
          /\ mf.colorspace # V4L2_COLORSPACE_RAW
       THEN find_pixfmt_from(mf, i + 1)
  ELSE IF \/ mf.width # s5k3l6xx_frames[i + 1].width
          \/ mf.height # s5k3l6xx_frames[i + 1].height
       THEN find_pixfmt_from(mf, i + 1)
  ELSE IF mf.code = s5k3l6xx_frames[i + 1].code THEN i
  ELSE find_pixfmt_from(mf, i + 1)

\* Mutation of s5k3l6xx_find_pixfmt: the loop starts at the second entry.
find_pixfmt_skips_first(mf) == find_pixfmt_from(mf, 1)

s5k3l6xx_find_pixfmt(mf) == find_pixfmt_from(mf, 0)

\* The return of s5k3l6xx_try_cis_format and the caller's buffer as it
\* leaves it.
try_cis_format_result(mf, pixfmt) ==
  IF pixfmt < 0 THEN [ret |-> pixfmt, mf |-> mf]
  ELSE [ret |-> pixfmt,
        mf |-> [mf EXCEPT !.colorspace = V4L2_COLORSPACE_RAW,
                          !.code = s5k3l6xx_frames[pixfmt + 1].code,
                          !.field = V4L2_FIELD_NONE]]

\* Mutation of try_cis_format_candidate: the candidate keeps the size asked
\* for.
try_cis_format_candidate_unsized(mf, mode) == mf

\* candidate = *mf with the size of the nearest mode.
try_cis_format_candidate(mf, mode) ==
  [mf EXCEPT !.width = mode.width, !.height = mode.height]

s5k3l6xx_try_cis_format(mf) ==
  try_cis_format_result(
    mf,
    s5k3l6xx_find_pixfmt(
      try_cis_format_candidate(
        mf,
        s5k3l6xx_frames[v4l2_find_nearest_size(s5k3l6xx_frames,
                                               mf.width, mf.height)])))

(***************************************************************************)
(* Regulator, clock, reset GPIO.                                           *)
(*   hw.supply, hw.clock  enables this driver holds                        *)
(*   in.pw                what the primitives return in this call, and     *)
(*                        whether another consumer keeps the supply on     *)
(***************************************************************************)
regulator_enable(m) ==
  [ret |-> m.in.pw.reg_en,
   m |-> Ev(IF m.in.pw.reg_en = 0 THEN [m EXCEPT !.hw.supply = @ + 1] ELSE m,
            "regulator_enable", 0, 0, m.in.pw.reg_en)]

regulator_is_enabled(m) == m.hw.supply > 0 \/ m.in.pw.shared

\* A disable this consumer has no enable for is refused by the framework.
regulator_disable_ret(m) == IF m.hw.supply = 0 THEN -5 ELSE m.in.pw.reg_dis

regulator_disable(m) ==
  [ret |-> regulator_disable_ret(m),
   m |-> Ev(IF regulator_disable_ret(m) = 0
            THEN [m EXCEPT !.hw.supply = @ - 1] ELSE m,
            "regulator_disable", 0, 0, regulator_disable_ret(m))]

clk_set_rate(m) ==
  [ret |-> m.in.pw.clk_rate, m |-> Ev(m, "clk_set_rate", 0, 0, m.in.pw.clk_rate)]

clk_prepare_enable(m) ==
  [ret |-> m.in.pw.clk_en,
   m |-> Ev(IF m.in.pw.clk_en = 0 THEN [m EXCEPT !.hw.clock = @ + 1] ELSE m,
            "clk_prepare_enable", 0, 0, m.in.pw.clk_en)]

clk_disable_unprepare(m) ==
  Ev([m EXCEPT !.hw.clock = IF @ > 0 THEN @ - 1 ELSE 0],
     "clk_disable_unprepare", 0, 0, 0)

s5k3l6xx_gpio_assert(m) ==
  Ev([m EXCEPT !.hw.rst = "asserted"], "gpio_assert", 0, 0, 0)

s5k3l6xx_gpio_deassert(m) ==
  Ev([m EXCEPT !.hw.rst = "deasserted"], "gpio_deassert", 0, 0, 0)

mutex_lock(m) == Ev(m, "mutex_lock", 0, 0, 0)
mutex_unlock(m) == Ev(m, "mutex_unlock", 0, 0, 0)

\* Mutation of power_on_err_reg_dis: the regulator is left enabled.
power_on_err_no_rollback(m, ret) == [ret |-> ret, m |-> m]

\* err_reg_dis: undo the regulator enable, return the failing step's error.
power_on_err_reg_dis(m, ret) ==
  [ret |-> ret,
   m |-> IF regulator_is_enabled(m) THEN regulator_disable(m).m ELSE m]

\* After clk_prepare_enable.
power_on_clk_enabled(r) ==
  IF r.ret < 0 THEN power_on_err_reg_dis(r.m, r.ret)
  ELSE [ret |-> 0, m |-> s5k3l6xx_gpio_deassert(r.m)]

\* After clk_set_rate.
power_on_rate_set(r) ==
  IF r.ret < 0 THEN power_on_err_reg_dis(r.m, r.ret)
  ELSE power_on_clk_enabled(clk_prepare_enable(r.m))

\* After regulator_enable.
power_on_regulator_enabled(r) ==
  IF r.ret < 0 THEN r ELSE power_on_rate_set(clk_set_rate(r.m))

s5k3l6xx_power_on(m) == power_on_regulator_enabled(regulator_enable(m))

\* Mutation of power_off_regulator: the result of regulator_disable is
\* returned.
power_off_regulator_ret(m) ==
  IF ~regulator_is_enabled(m) THEN [ret |-> 0, m |-> m]
  ELSE regulator_disable(m)

\* After the clock is disabled.
power_off_regulator(m) ==
  IF ~regulator_is_enabled(m) THEN [ret |-> 0, m |-> m]
  ELSE [ret |-> 0, m |-> regulator_disable(m).m]

\* Mutation of s5k3l6xx_power_off: streaming is not cleared.
power_off_keeps_streaming(m) ==
  power_off_regulator(clk_disable_unprepare(s5k3l6xx_gpio_assert(m)))

s5k3l6xx_power_off(m) ==
  power_off_regulator(
    clk_disable_unprepare(
      s5k3l6xx_gpio_assert([m EXCEPT !.dev.streaming = FALSE])))

\* ret = s5k3l6xx_clear_error(state); if (!ret) state->power++;
set_power_count(c) ==
  [ret |-> c.ret,
   m |-> mutex_unlock(IF c.ret = 0 THEN [c.m EXCEPT !.dev.power = @ + 1]
                      ELSE c.m)]

set_power_on(p) ==
  IF p.ret < 0 THEN [ret |-> p.ret, m |-> mutex_unlock(p.m)]
  ELSE set_power_count(s5k3l6xx_clear_error(p.m))

set_power_off(p) ==
  [ret |-> 0, m |-> mutex_unlock([p.m EXCEPT !.dev.power = @ - 1])]

\* Mutation of set_power_locked: the power counter is not compared.
set_power_locked_always(m, on) ==
  IF on THEN set_power_on(s5k3l6xx_power_on(m))
  ELSE set_power_off(s5k3l6xx_power_off(m))

set_power_locked(m, on) ==
  IF m.dev.power # (IF on THEN 0 ELSE 1)
  THEN [ret |-> 0, m |-> mutex_unlock(m)]
  ELSE IF on THEN set_power_on(s5k3l6xx_power_on(m))
  ELSE set_power_off(s5k3l6xx_power_off(m))

s5k3l6xx_set_power(m, on) == set_power_locked(mutex_lock(m), on)

(***************************************************************************)
(* Suspend / resume callbacks and the runtime-PM reference.                *)
(*   hw.pm_usage    references taken minus references released             *)
(*   hw.rpm_active  the device is not runtime-suspended                    *)
(***************************************************************************)
s5k3l6xx_suspend(m) ==
  s5k3l6xx_set_power(
    IF m.dev.streaming THEN s5k3l6xx_hw_set_stream(m, FALSE) ELSE m, FALSE)

resume_powered(r) ==
  [ret |-> r.ret,
   m |-> IF r.ret = 0 /\ r.m.dev.streaming
         THEN s5k3l6xx_hw_set_stream(r.m, TRUE) ELSE r.m]

s5k3l6xx_resume(m) == resume_powered(s5k3l6xx_set_power(m, TRUE))

pm_usage_inc(m, tag) ==
  Ev([m EXCEPT !.hw.pm_usage = @ + 1], tag, 0, 0, 0)

pm_usage_dec(m, tag) ==
  Ev([m EXCEPT !.hw.pm_usage = @ - 1], tag, 0, 0, 0)

\* The device is active again iff the resume callback returned 0.
get_sync_resumed(r) ==
  [ret |-> r.ret, m |-> [r.m EXCEPT !.hw.rpm_active = (r.ret = 0)]]

\* Takes a reference and, when the device is runtime-suspended, runs the
\* resume callback; 1 when the device was active already.
pm_runtime_get_sync(m) ==
  IF m.hw.rpm_active
  THEN [ret |-> 1, m |-> pm_usage_inc(m, "pm_runtime_get_sync")]
  ELSE get_sync_resumed(s5k3l6xx_resume(pm_usage_inc(m, "pm_runtime_get_sync")))

pm_runtime_put_noidle(m) == pm_usage_dec(m, "pm_runtime_put_noidle")

pm_runtime_put(m) == pm_usage_dec(m, "pm_runtime_put")

\* Takes a reference only if the device is active and already referenced.
pm_runtime_get_if_in_use(m) ==
  IF m.hw.rpm_active /\ m.hw.pm_usage > 0
  THEN [ret |-> 1, m |-> pm_usage_inc(m, "pm_runtime_get_if_in_use")]
  ELSE [ret |-> 0, m |-> Ev(m, "pm_runtime_get_if_in_use", 0, 0, 0)]

(***************************************************************************)
(* Controls.                                                               *)
(***************************************************************************)
\* The controls of the handler in the order s5k3l6xx_initialize_ctrls()
\* creates them, with their default values.
s5k3l6xx_ctrl_ids ==
  << "V4L2_CID_EXPOSURE", "V4L2_CID_ANALOGUE_GAIN", "V4L2_CID_DIGITAL_GAIN",
     "V4L2_CID_TEST_PATTERN", "V4L2_CID_TEST_PATTERN_RED",
     "V4L2_CID_TEST_PATTERN_GREENR", "V4L2_CID_TEST_PATTERN_BLUE",
     "V4L2_CID_TEST_PATTERN_GREENB" >>

s5k3l6xx_ctrl_defaults ==
  [ V4L2_CID_EXPOSURE |-> 990, V4L2_CID_ANALOGUE_GAIN |-> 32,
    V4L2_CID_DIGITAL_GAIN |-> 256, V4L2_CID_TEST_PATTERN |-> 0,
    V4L2_CID_TEST_PATTERN_RED |-> 512, V4L2_CID_TEST_PATTERN_GREENR |-> 512,
    V4L2_CID_TEST_PATTERN_BLUE |-> 512, V4L2_CID_TEST_PATTERN_GREENB |-> 512 ]

\* Mutation of s_ctrl_apply_test_solid: the mode register is written again
\* whatever pattern is in effect.
s_ctrl_apply_always(m) ==
  s5k3l6xx_hw_set_test_pattern(m, S5K3L6XX_TEST_PATTERN_SOLID_COLOR)

\* if (state->apply_test_solid) s5k3l6xx_hw_set_test_pattern(SOLID_COLOR);
s_ctrl_apply_test_solid(m) ==
  IF m.dev.apply_test_solid
  THEN s5k3l6xx_hw_set_test_pattern(m, S5K3L6XX_TEST_PATTERN_SOLID_COLOR)
  ELSE m

\* A colour component: the data register, then the mode register again if
\* solid colour is in effect.
s_ctrl_test_data(m, addr, val) ==
  s_ctrl_apply_test_solid(s5k3l6xx_i2c_write2(m, addr, (val % 65536) % 1024))

\* The switch on ctrl->id.
s_ctrl_switch(m, id, val) ==
  CASE id = "V4L2_CID_ANALOGUE_GAIN" ->
         s5k3l6xx_i2c_write2(m, S5K3L6XX_REG_ANALOG_GAIN, (val % 65536) % 1024)
    [] id = "V4L2_CID_DIGITAL_GAIN" ->
         s5k3l6xx_i2c_write2(m, S5K3L6XX_REG_DIGITAL_GAIN, (val % 65536) % 4096)
    [] id = "V4L2_CID_EXPOSURE" ->
         s5k3l6xx_i2c_write2(m, S5K3L6XX_REG_COARSE_INTEGRATION_TIME, val % 65536)
    [] id = "V4L2_CID_TEST_PATTERN" ->
         s5k3l6xx_hw_set_test_pattern(
           [m EXCEPT !.dev.apply_test_solid =
                       (val = S5K3L6XX_TEST_PATTERN_SOLID_COLOR)], val)
    [] id = "V4L2_CID_TEST_PATTERN_RED" ->
         s_ctrl_test_data(m, S5K3L6XX_REG_TEST_DATA_RED, val)
    [] id = "V4L2_CID_TEST_PATTERN_GREENR" ->
         s_ctrl_test_data(m, S5K3L6XX_REG_TEST_DATA_GREENR, val)
    [] id = "V4L2_CID_TEST_PATTERN_BLUE" ->
         s_ctrl_test_data(m, S5K3L6XX_REG_TEST_DATA_BLUE, val)
    [] id = "V4L2_CID_TEST_PATTERN_GREENB" ->
         s_ctrl_test_data(m, S5K3L6XX_REG_TEST_DATA_GREENB, val)
    [] OTHER -> m

\* Mutation of s_ctrl_done: the reference is released whatever the query
\* answered.
s_ctrl_done_put_always(c, in_use) ==
  [ret |-> c.ret, m |-> mutex_unlock(pm_runtime_put(c.m))]

\* ret = s5k3l6xx_clear_error(state); if (in_use) pm_runtime_put();
s_ctrl_done(c, in_use) ==
  [ret |-> c.ret,
   m |-> mutex_unlock(IF in_use # 0 THEN pm_runtime_put(c.m) ELSE c.m)]

\* g is the result of pm_runtime_get_if_in_use.
s_ctrl_powered(g, id, val) ==
  s_ctrl_done(s5k3l6xx_clear_error(s_ctrl_switch(g.m, id, val)), g.ret)

\* Mutation of s_ctrl_locked: the power counter is not looked at.
s_ctrl_locked_unpowered(m, id, val) ==
  s_ctrl_powered(pm_runtime_get_if_in_use(m), id, val)

s_ctrl_locked(m, id, val) ==
  IF m.dev.power = 0 THEN [ret |-> 0, m |-> mutex_unlock(m)]
  ELSE s_ctrl_powered(pm_runtime_get_if_in_use(m), id, val)

s5k3l6xx_s_ctrl(m, id, val) == s_ctrl_locked(mutex_lock(m), id, val)

\* A control write: the handler is called with ctrl->val = val, and val stays
\* the control's value when the handler returned 0.
ctrl_write(r, id, val) ==
  [ret |-> r.ret,
   m |-> IF r.ret = 0 THEN [r.m EXCEPT !.dev.ctrls[id] = val] ELSE r.m]

\* v4l2_ctrl_handler_setup(): s_ctrl for every control of the handler with
\* its current value, up to the first one that fails.
RECURSIVE ctrl_handler_setup_from(_, _)
RECURSIVE ctrl_handler_setup_next(_, _)
ctrl_handler_setup_next(r, i) ==
  IF r.ret # 0 THEN r ELSE ctrl_handler_setup_from(r.m, i + 1)

ctrl_handler_setup_from(m, i) ==
  IF i > Len(s5k3l6xx_ctrl_ids) THEN [ret |-> 0, m |-> m]
  ELSE ctrl_handler_setup_next(
         s5k3l6xx_s_ctrl(m, s5k3l6xx_ctrl_ids[i],
                         m.dev.ctrls[s5k3l6xx_ctrl_ids[i]]),
         i)

v4l2_ctrl_handler_setup(m) == ctrl_handler_setup_from(m, 1)

(***************************************************************************)
(* Streaming.                                                              *)
(***************************************************************************)
\* Mutation of s_stream_toggle: streaming is toggled whatever the drained
\* error is.
s_stream_toggle_always(c) ==
  [ret |-> c.ret, m |-> mutex_unlock([c.m EXCEPT !.dev.streaming = ~@])]

\* if (!ret) state->streaming = !state->streaming; then the unlock at out.
s_stream_toggle(c) ==
  [ret |-> c.ret,
   m |-> mutex_unlock(IF c.ret = 0 THEN [c.m EXCEPT !.dev.streaming = ~@]
                      ELSE c.m)]

\* The common tail of s5k3l6xx_s_stream.
s_stream_finish(m) == s_stream_toggle(s5k3l6xx_clear_error(m))

\* Mutation of s_stream_on_configured: streaming is enabled before the
\* configuration is written.
s_stream_on_enable_first(h) ==
  IF h.ret < 0 THEN [ret |-> h.ret, m |-> mutex_unlock(h.m)]
  ELSE s_stream_finish(
         s5k3l6xx_hw_set_config(s5k3l6xx_hw_set_stream(mutex_lock(h.m), TRUE)))

\* After v4l2_ctrl_handler_setup: a failure leaves through "out", which
\* unlocks the mutex.
s_stream_on_configured(h) ==
  IF h.ret < 0 THEN [ret |-> h.ret, m |-> mutex_unlock(h.m)]
  ELSE s_stream_finish(
         s5k3l6xx_hw_set_stream(s5k3l6xx_hw_set_config(mutex_lock(h.m)), TRUE))

\* After pm_runtime_get_sync.
s_stream_on_resumed(g) ==
  IF g.ret < 0 THEN [ret |-> g.ret, m |-> pm_runtime_put_noidle(g.m)]
  ELSE s_stream_on_configured(v4l2_ctrl_handler_setup(g.m))

s_stream_on(m) == s_stream_on_resumed(pm_runtime_get_sync(m))

\* Mutation of s_stream_off: the runtime-PM reference is not released.
s_stream_off_no_put(m) ==
  s_stream_finish(s5k3l6xx_hw_set_stream(mutex_lock(m), FALSE))

s_stream_off(m) ==
  s_stream_finish(pm_runtime_put(s5k3l6xx_hw_set_stream(mutex_lock(m), FALSE)))

\* Mutation of s5k3l6xx_s_stream: the check for a transition already made
\* is missing.
s_stream_always(m, on) == IF on THEN s_stream_on(m) ELSE s_stream_off(m)

s5k3l6xx_s_stream(m, on) ==
  IF m.dev.streaming = on THEN [ret |-> 0, m |-> m]
  ELSE IF on THEN s_stream_on(m)
  ELSE s_stream_off(m)

(***************************************************************************)
(* Formats.  A format call returns [ret, m, mf]: mf is the caller's buffer *)
(* as the call leaves it.                                                  *)
(***************************************************************************)
\* state->frame_fmt = frame; mf->code and mf->colorspace from it.
set_fmt_commit(m, mf, idx) ==
  [ret |-> 0,
   m |-> mutex_unlock([m EXCEPT !.dev.frame_fmt = idx]),
   mf |-> [mf EXCEPT !.code = Frame(idx).code,
                     !.colorspace = V4L2_COLORSPACE_RAW]]

\* Mutation of set_fmt_negotiated: a failed negotiation is not checked for
\* and selects the first catalog entry.
set_fmt_negotiated_unchecked(m, t) ==
  set_fmt_commit(m, t.mf, IF t.ret = -1 THEN 0 ELSE t.ret)

\* t is the result of s5k3l6xx_try_cis_format.
set_fmt_negotiated(m, t) ==
  IF t.ret = -1 THEN [ret |-> 0 - EINVAL, m |-> mutex_unlock(m), mf |-> t.mf]
  ELSE set_fmt_commit(m,
                      [t.mf EXCEPT !.width = Frame(t.ret).width,
                                   !.height = Frame(t.ret).height],
                      t.ret)

\* Mutation of set_fmt_busy: the streaming check is missing.
set_fmt_busy_unchecked(m) == FALSE

set_fmt_busy(m) == m.dev.streaming

\* Mutation of set_fmt_active: the frame is selected before streaming is
\* looked at.
set_fmt_active_select_first(m, mf) ==
  IF m.dev.debug_frame # 0 THEN set_fmt_commit(m, mf, FrameDebug)
  ELSE set_fmt_negotiated(m, s5k3l6xx_try_cis_format(mf))

set_fmt_active(m, mf) ==
  IF set_fmt_busy(m) THEN [ret |-> 0 - EBUSY, m |-> mutex_unlock(m), mf |-> mf]
  ELSE IF m.dev.debug_frame # 0 THEN set_fmt_commit(m, mf, FrameDebug)
  ELSE set_fmt_negotiated(m, s5k3l6xx_try_cis_format(mf))

set_fmt_which(m, which, mf) ==
  IF which = V4L2_SUBDEV_FORMAT_TRY
  THEN [ret |-> 0, m |-> [m EXCEPT !.try_fmt = mf], mf |-> mf]
  ELSE set_fmt_active(mutex_lock(m), mf)

s5k3l6xx_set_fmt(m, which, mf) ==
  set_fmt_which(m, which, [mf EXCEPT !.field = V4L2_FIELD_NONE])

\* Mutation of s5k3l6xx_get_fmt: an ACTIVE get also stores what it
\* negotiated as the active frame.
get_fmt_selects(m, which, mf) ==
  IF which = V4L2_SUBDEV_FORMAT_TRY
  THEN [ret |-> 0, m |-> m, mf |-> m.try_fmt]
  ELSE [ret |-> 0,
        m |-> IF s5k3l6xx_try_cis_format(mf).ret < 0 THEN m
              ELSE [m EXCEPT !.dev.frame_fmt = s5k3l6xx_try_cis_format(mf).ret],
        mf |-> s5k3l6xx_try_cis_format(mf).mf]

\* TRY: the pad's TRY format is copied out.  ACTIVE (the only pad is
\* PAD_CIS): the negotiator is run on the caller's buffer.
s5k3l6xx_get_fmt(m, which, mf) ==
  IF which = V4L2_SUBDEV_FORMAT_TRY
  THEN [ret |-> 0, m |-> m, mf |-> m.try_fmt]
  ELSE [ret |-> 0, m |-> m, mf |-> s5k3l6xx_try_cis_format(mf).mf]

\* The negotiator is run on the TRY format of the file handle's pad.
s5k3l6xx_open(m) ==
  [ret |-> 0, m |-> [m EXCEPT !.try_fmt = s5k3l6xx_try_cis_format(@).mf]]

\* code is the caller's struct as the call leaves it: [index, code].
s5k3l6xx_enum_mbus_code(code) ==
  IF code.index >= Len(s5k3l6xx_frames)
  THEN [ret |-> 0 - EINVAL, code |-> code]
  ELSE [ret |-> 0,
        code |-> [code EXCEPT !.code = s5k3l6xx_frames[code.index + 1].code]]

\* i = ARRAY_SIZE; while (--i) if (code == s5k3l6xx_frames[i].code) break;
\* The C index the loop ends at, entered with i.
RECURSIVE enum_frame_size_scan(_, _)
enum_frame_size_scan(code, i) ==
  IF i - 1 = 0 THEN 0
  ELSE IF code = s5k3l6xx_frames[(i - 1) + 1].code THEN i - 1
  ELSE enum_frame_size_scan(code, i - 1)

enum_frame_size_fill(fse, i) ==
  [fse EXCEPT !.code = s5k3l6xx_frames[i + 1].code,
              !.min_width = s5k3l6xx_frames[i + 1].width,
              !.max_width = s5k3l6xx_frames[i + 1].width,
              !.max_height = s5k3l6xx_frames[i + 1].height,
              !.min_height = s5k3l6xx_frames[i + 1].height]

\* fse is the caller's struct as the call leaves it.
s5k3l6xx_enum_frame_size(fse) ==
  IF fse.index > 0 THEN [ret |-> 0 - EINVAL, fse |-> fse]
  ELSE [ret |-> 0,
        fse |-> enum_frame_size_fill(
                  fse, enum_frame_size_scan(fse.code, Len(s5k3l6xx_frames)))]

(***************************************************************************)
(* Debug override table (debugfs).                                         *)
(*   entries beyond entry_count are never read and are not kept            *)
(***************************************************************************)
\* Mutation of regstable_append: the entry is put in front of the others.
regstable_prepend(regs, entry) ==
  [entry_count |-> regs.entry_count + 1,
   entries |-> <<entry>> \o SubSeq(regs.entries, 1, regs.entry_count)]

regstable_append(regs, entry) ==
  [entry_count |-> regs.entry_count + 1,
   entries |-> Append(SubSeq(regs.entries, 1, regs.entry_count), entry)]

\* Mutation of debug_add: the capacity check is off by one.
debug_add_off_by_one(m, value) ==
  IF m.dev.debug_regs.entry_count > REGSTABLE_SIZE
  THEN [ret |-> 0 - EFBIG, m |-> m]
  ELSE IF value # value % 256 THEN [ret |-> 0 - EINVAL, m |-> m]
  ELSE [ret |-> 0,
        m |-> [m EXCEPT !.dev.debug_regs =
                 regstable_append(@, [address |-> m.dev.debug_address,
                                      value |-> value % 256])]]

debug_add(m, value) ==
  IF m.dev.debug_regs.entry_count >= REGSTABLE_SIZE
  THEN [ret |-> 0 - EFBIG, m |-> m]
  ELSE IF value # value % 256 THEN [ret |-> 0 - EINVAL, m |-> m]
  ELSE [ret |-> 0,
        m |-> [m EXCEPT !.dev.debug_regs =
                 regstable_append(@, [address |-> m.dev.debug_address,
                                      value |-> value % 256])]]

\* debugfs_create_x16("address", ..., &state->debug_address)
debugfs_address(m, value) ==
  [ret |-> 0, m |-> [m EXCEPT !.dev.debug_address = value % 65536]]

\* debugfs_create_u8("debug_frame", ..., &state->debug_frame)
debugfs_debug_frame(m, value) ==
  [ret |-> 0, m |-> [m EXCEPT !.dev.debug_frame = value % 256]]

debug_clear(m, value) ==
  [ret |-> 0,
   m |-> [m EXCEPT !.dev.debug_regs = [entry_count |-> 0, entries |-> << >>]]]

(***************************************************************************)
(* State.                                                                  *)
(*   dev       struct s5k3l6xx                                             *)
(*   hw        regulator / clock enables, reset line, runtime-PM state     *)
(*   debug     module parameter "debug"                                    *)
(*   try_fmt   the TRY format of the pad configuration                     *)
(*   mf        the caller's format buffer after the last format call       *)
(*   trace     collaborator calls made by the last handler                 *)
(*   last      the handler that has just returned, its arguments and its   *)
(*             return value; NoCall once the caller has taken the result   *)
(*   entry     dev and hw as they were when that handler was entered       *)
(*   scenario  how far the caller is into the sequence power_on,           *)
(*             start_streaming, stop_streaming, power_off with every       *)
(*             primitive succeeding, and hw.pm_usage at its beginning      *)
(***************************************************************************)
VARIABLES dev, hw, debug, try_fmt, mf, trace, last, entry, scenario, conc,
          mhdp, tps

vars ==
  <<dev, hw, debug, try_fmt, mf, trace, last, entry, scenario, conc, mhdp, tps>>

NoFault == [k |-> 0, r |-> 0]

\* A transfer that fails returns a negative errno, 0 messages, or (a read) 1
\* of its 2 messages.
FaultPlans(maxk) ==
  {NoFault} \cup {[k |-> k, r |-> r] : k \in 1 .. maxk, r \in {-5, 0, 1}}

PwOk == [reg_en |-> 0, clk_rate |-> 0, clk_en |-> 0, reg_dis |-> 0,
         shared |-> FALSE]

\* Each power step failing alone, the rollback's disable failing too, the
\* disable of power-off failing, and a supply another consumer keeps on.
PowerOutcomes ==
  { PwOk,
    [PwOk EXCEPT !.reg_en = -110],
    [PwOk EXCEPT !.clk_rate = -22],
    [PwOk EXCEPT !.clk_en = -5],
    [PwOk EXCEPT !.clk_en = -5, !.reg_dis = -5],
    [PwOk EXCEPT !.reg_dis = -5],
    [PwOk EXCEPT !.shared = TRUE] }

\* Outcomes of a call that may power the device on and then use the bus: no
\* transaction is issued when a power step fails.
BusAndPower(maxk) ==
  {[plan |-> p, pw |-> PwOk] : p \in FaultPlans(maxk)}
    \cup {[plan |-> NoFault, pw |-> q] : q \in PowerOutcomes}

NoMf == [width |-> 0, height |-> 0, code |-> 0, colorspace |-> 0, field |-> 0]

Machine(in) ==
  [dev |-> dev, hw |-> hw, debug |-> debug, try_fmt |-> try_fmt,
   trace |-> << >>, n |-> 0, in |-> in]

InBounds(m) ==
  /\ m.hw.pm_usage \in (0 - MaxPmRefs) .. MaxPmRefs
  /\ m.hw.supply <= MaxEnable
  /\ m.hw.clock <= MaxEnable

Call(op, on, which, req, value) ==
  [op |-> op, on |-> on, which |-> which, req |-> req, value |-> value]

NoCall == [call |-> Call("none", FALSE, 0, NoMf, 0), ret |-> 0]
NoEntry == [dev |-> << >>, hw |-> << >>]

\* No handler is running and no result is pending: a caller may call.
Idle == last = NoCall

(***************************************************************************)
(* The caller's position in the sequence power_on, start_streaming,        *)
(* stop_streaming, power_off.                                              *)
(***************************************************************************)
\* What a primitive returns when it succeeds.
Succeeded(e) ==
  CASE e[1] = "rd" -> e[4] = 2
    [] e[1] \in {"w1", "w2"} -> e[4] = 1
    [] OTHER -> e[4] = 0

AllSucceeded(tr) == \A i \in 1 .. Len(tr) : Succeeded(tr[i])

NoScenario == [step |-> 0, base |-> 0]

ScenarioCalls ==
  << Call("set_power", TRUE, 0, NoMf, 0), Call("s_stream", TRUE, 0, NoMf, 0),
     Call("s_stream", FALSE, 0, NoMf, 0), Call("set_power", FALSE, 0, NoMf, 0) >>

\* The position after the call `call` made in machine state m0 (before) has
\* left the trace tr.
ScenarioAfter(call, m0, tr) ==
  IF ~AllSucceeded(tr) THEN NoScenario
  ELSE IF scenario.step \in 1 .. 3 /\ call = ScenarioCalls[scenario.step + 1]
       THEN [scenario EXCEPT !.step = @ + 1]
  ELSE IF call = ScenarioCalls[1] /\ m0.dev.power = 0 /\ ~m0.dev.streaming
       THEN [step |-> 1, base |-> m0.hw.pm_usage]
  ELSE NoScenario

\* Two callers of the subdev operations and the runtime-PM worker.
Callers == {1, 2}
PmWorker == 3
Threads == Callers \cup {PmWorker}

\* No thread is inside an operation and the mutex is free.
\*   lock  the thread that owns state->lock, 0 when it is free
\*   pc    where each thread is in the operation it runs
\*   on    the argument of the thread's last .s_stream call
\*   ret   the operation's local "ret": what the thread's last call returned
\*   took  the call the thread runs has locked the mutex itself
\*   i     the loop index of s5k3l6xx_submit_regstable
NoConc ==
  [lock |-> 0, pc |-> [t \in Threads |-> "idle"],
   on |-> [t \in Threads |-> FALSE],
   ret |-> [t \in Threads |-> 0], took |-> [t \in Threads |-> FALSE],
   i |-> [t \in Threads |-> 0]]

\* The MHDP bridge before its audio driver is registered.
NoMhdp == [audio_info |-> << >>, num_lanes |-> 0]

\* struct tps6598x before probe has run.
NoTps == [partner |-> "NULL", pwr_status |-> "USB", dp |-> FALSE,
          terms |-> "none"]

\* A handler is entered from Idle, runs to its return, and its result r
\* becomes the next state.
Commit(r, call, buf) ==
  /\ InBounds(r.m)
  /\ dev' = r.m.dev
  /\ hw' = r.m.hw
  /\ try_fmt' = r.m.try_fmt
  /\ trace' = r.m.trace
  /\ mf' = buf
  /\ last' = [call |-> call, ret |-> r.ret]
  /\ entry' = [dev |-> dev, hw |-> hw]
  /\ scenario' = ScenarioAfter(call, [dev |-> dev, hw |-> hw], r.m.trace)
  /\ UNCHANGED <<debug, conc, mhdp, tps>>

\* A format call also leaves the caller's buffer.
CommitFmt(r, call) == Commit(r, call, r.mf)

\* The device after a successful probe: powered, default frame, controls at
\* their defaults; the identity reads of probe may have latched an error.
InitDev(nlanes, error) ==
  [power |-> 1, streaming |-> FALSE, frame_fmt |-> 0, error |-> error,
   apply_test_solid |-> FALSE, debug_frame |-> 0, debug_address |-> 0,
   debug_regs |-> [entry_count |-> 0, entries |-> << >>],
   nlanes |-> nlanes, ctrls |-> s5k3l6xx_ctrl_defaults]

InitHw ==
  [pm_usage |-> 0, rpm_active |-> TRUE, supply |-> 1, clock |-> 1,
   rst |-> "deasserted"]

InitWith(lanes, levels, errors) ==
  /\ \E nlanes \in lanes, error \in errors : dev = InitDev(nlanes, error)
  /\ hw = InitHw
  /\ debug \in levels
  /\ try_fmt = NoMf
  /\ mf = NoMf
  /\ trace = << >>
  /\ last = NoCall
  /\ entry = NoEntry
  /\ scenario = NoScenario
  /\ conc = NoConc
  /\ mhdp = NoMhdp
  /\ tps = NoTps

Init == InitWith({2}, {0}, {0, -5, 1})

(***************************************************************************)
(* Actions: one per entry point.                                           *)
(***************************************************************************)
\* .s_power, the power primitives answering one of `outcomes`
SetPower(outcomes) ==
  /\ Idle
  /\ \E on \in BOOLEAN, pw \in outcomes :
       Commit(s5k3l6xx_set_power(Machine([plan |-> NoFault, pw |-> pw]), on),
              Call("set_power", on, 0, NoMf, 0), NoMf)

set_power == SetPower(PowerOutcomes)

\* .s_stream with on = 1, bus and power answering one of `inputs`
StartStreaming(inputs) ==
  /\ Idle
  /\ \E in \in inputs :
       Commit(s5k3l6xx_s_stream(Machine(in), TRUE),
              Call("s_stream", TRUE, 0, NoMf, 0), NoMf)

start_streaming == StartStreaming(BusAndPower(MaxFaultPos))

\* .s_stream with on = 0, the bus following one of `plans`
StopStreaming(plans) ==
  /\ Idle
  /\ \E p \in plans :
       Commit(s5k3l6xx_s_stream(Machine([plan |-> p, pw |-> PwOk]), FALSE),
              Call("s_stream", FALSE, 0, NoMf, 0), NoMf)

stop_streaming == StopStreaming(FaultPlans(2))

\* The device is runtime-suspended iff the suspend callback returned 0.
rpm_suspended(r) ==
  [ret |-> r.ret, m |-> [r.m EXCEPT !.hw.rpm_active = (r.ret # 0)]]

\* The PM core suspends a device nobody holds a reference to.
runtime_suspend ==
  /\ Idle
  /\ hw.rpm_active
  /\ hw.pm_usage <= 0
  /\ \E p \in FaultPlans(2), pw \in PowerOutcomes :
       Commit(rpm_suspended(s5k3l6xx_suspend(Machine([plan |-> p, pw |-> pw]))),
              Call("runtime_suspend", FALSE, 0, NoMf, 0), NoMf)

\* Codes a caller asks for: the one of the catalog and
\* MEDIA_BUS_FMT_SGRBG10_1X10 (0x300a), which no catalog entry has.
RequestCodes == {MEDIA_BUS_FMT_SGRBG8_1X8, 12298}

\* Colorspaces a caller asks for: DEFAULT, RAW and V4L2_COLORSPACE_SRGB (8).
RequestColorspaces == {V4L2_COLORSPACE_DEFAULT, V4L2_COLORSPACE_RAW, 8}

\* Requests of .set_fmt: exact sizes and sizes between catalog entries.
ActiveRequests ==
  [width : {1052, 2000, 4208}, height : {780, 1500, 3120},
   code : RequestCodes, colorspace : RequestColorspaces, field : {0}]

\* The catalog's sizes with its code.
ExactRequests ==
  {[width |-> s5k3l6xx_frames[i].width, height |-> s5k3l6xx_frames[i].height,
    code |-> s5k3l6xx_frames[i].code, colorspace |-> V4L2_COLORSPACE_DEFAULT,
    field |-> 0] : i \in 1 .. Len(s5k3l6xx_frames)}

\* .set_fmt with which = ACTIVE and one of `requests`
SetFmt(requests) ==
  /\ Idle
  /\ \E req \in requests :
       CommitFmt(s5k3l6xx_set_fmt(Machine([plan |-> NoFault, pw |-> PwOk]),
                                  V4L2_SUBDEV_FORMAT_ACTIVE, req),
                 Call("set_fmt", FALSE, V4L2_SUBDEV_FORMAT_ACTIVE, req, 0))

set_fmt == SetFmt(ActiveRequests)

\* The caller takes the result of the handler that returned.
return_to_caller ==
  /\ ~Idle
  /\ last' = NoCall
  /\ entry' = NoEntry
  /\ trace' = << >>
  /\ mf' = NoMf
  /\ UNCHANGED <<dev, hw, debug, try_fmt, scenario, conc, mhdp, tps>>

Next ==
  \/ return_to_caller
  \/ set_power
  \/ start_streaming
  \/ stop_streaming
  \/ runtime_suspend
  \/ set_fmt

Spec == Init /\ [][Next]_vars

(***************************************************************************)
(* The debug override table with stream start and stop (SpecDebug).        *)
(***************************************************************************)
\* The address an operator overrides, which the two larger modes write;
\* before the first write to "address" the address is 0.
DebugAddresses == {S5K3L6XX_REG_AF}

\* Values written to add_value: 0x42, 0x07, and 0x100, which is no u8.
DebugValues == {66, 7, 256}

NoInput == [plan |-> NoFault, pw |-> PwOk]

write_address ==
  /\ Idle
  /\ \E a \in DebugAddresses :
       Commit(debugfs_address(Machine(NoInput), a),
              Call("address", FALSE, 0, NoMf, a), NoMf)

write_add_value ==
  /\ Idle
  /\ dev.debug_regs.entry_count < MaxOverrides
  /\ \E v \in DebugValues :
       Commit(debug_add(Machine(NoInput), v),
              Call("add_value", FALSE, 0, NoMf, v), NoMf)

write_clear ==
  /\ Idle
  /\ Commit(debug_clear(Machine(NoInput), 1),
            Call("clear", FALSE, 0, NoMf, 1), NoMf)

\* Two lanes with the module parameter debug at 0, four lanes with it at 5.
InitDebug == InitWith({2}, {0}, {0, -5}) \/ InitWith({4}, {5}, {0})

NextDebug ==
  \/ return_to_caller
  \/ write_address
  \/ write_add_value
  \/ write_clear
  \/ SetFmt(ExactRequests)
  \/ start_streaming
  \/ StopStreaming({NoFault})

SpecDebug == InitDebug /\ [][NextDebug]_vars

(***************************************************************************)
(* Format setting in every power / streaming state, with the debug frame   *)
(* (SpecSetFmt).                                                           *)
(***************************************************************************)
write_debug_frame ==
  /\ Idle
  /\ \E v \in {0, 1} :
       Commit(debugfs_debug_frame(Machine(NoInput), v),
              Call("debug_frame", FALSE, 0, NoMf, v), NoMf)

InitSetFmt == InitWith({2}, {0}, {0, -5})

NextSetFmt ==
  \/ return_to_caller
  \/ write_debug_frame
  \/ set_fmt
  \/ SetPower({PwOk})
  \/ StartStreaming({NoInput})
  \/ StopStreaming({NoFault})

SpecSetFmt == InitSetFmt /\ [][NextSetFmt]_vars

(***************************************************************************)
(* The debug override table filled to its capacity (SpecTable).            *)
(***************************************************************************)
\* add_value with no bound but REGSTABLE_SIZE: 0x42, and 0x100 (no u8).
fill_add_value ==
  /\ Idle
  /\ \E v \in {66, 256} :
       Commit(debug_add(Machine(NoInput), v),
              Call("add_value", FALSE, 0, NoMf, v), NoMf)

InitTable == InitWith({2}, {0}, {0})

NextTable ==
  \/ return_to_caller
  \/ fill_add_value
  \/ write_clear

SpecTable == InitTable /\ [][NextTable]_vars

(***************************************************************************)
(* The format negotiator applied to a caller's buffer (SpecFmt).           *)
(***************************************************************************)
\* Requests: exact sizes, sizes between, below and above the catalog's, and
\* (1578, 1170), which is as far from the first entry as from the second.
FmtRequests ==
  [width : {1, 1052, 1578, 2000, 2104, 3156, 4208, 5000},
   height : {1, 780, 1170, 1500, 1560, 2340, 3120},
   code : RequestCodes, colorspace : RequestColorspaces, field : {0}]

\* r is the result of s5k3l6xx_try_cis_format on the buffer.
try_cis_format_done(r) ==
  /\ last' = [call |-> Call("try_cis_format", FALSE, 0, mf, 0), ret |-> r.ret]
  /\ mf' = r.mf
  /\ UNCHANGED <<dev, hw, debug, try_fmt, trace, entry, scenario, conc, mhdp, tps>>

try_cis_format ==
  /\ Idle
  /\ try_cis_format_done(s5k3l6xx_try_cis_format(mf))

InitFmt ==
  /\ dev = InitDev(2, 0)
  /\ hw = InitHw
  /\ debug = 0
  /\ try_fmt = NoMf
  /\ mf \in FmtRequests
  /\ trace = << >>
  /\ last = NoCall
  /\ entry = NoEntry
  /\ scenario = NoScenario
  /\ conc = NoConc
  /\ mhdp = NoMhdp
  /\ tps = NoTps

NextFmt == try_cis_format

SpecFmt == InitFmt /\ [][NextFmt]_vars

(***************************************************************************)
(* Properties of the lifecycle (Spec).                                     *)
(***************************************************************************)
IsSetFmtActive ==
  /\ last.call.op = "set_fmt"
  /\ last.call.which = V4L2_SUBDEV_FORMAT_ACTIVE

IsStart == last.call.op = "s_stream" /\ last.call.on

IsBus(e) == e[1] \in {"rd", "w1", "w2"}

NoBusTransaction == \A i \in 1 .. Len(trace) : ~IsBus(trace[i])

\* C1: set_fmt with an ACTIVE request entered while streaming returns -EBUSY
\* and leaves frame_fmt as it was, whatever width, height and code are asked.
C1_SetFmtBusyWhileStreaming ==
  (IsSetFmtActive /\ entry.dev.streaming)
    => /\ last.ret = 0 - EBUSY
       /\ dev.frame_fmt = entry.dev.frame_fmt

\* An ACTIVE set_fmt for a size between catalog entries has been refused
\* while streaming.
C1_Witness ==
  /\ IsSetFmtActive
  /\ entry.dev.streaming
  /\ last.call.req.width = 2000
  /\ last.ret = 0 - EBUSY

\* C2 (amended): a start that returns success leaves the device streaming,
\* and a start entered while streaming (the second of two in a row after a
\* successful first) returns success, leaves the device streaming, changes
\* nothing and performs no bus transaction.
C2_StartIdempotent ==
  IsStart
    => /\ (last.ret = 0 => dev.streaming)
       /\ entry.dev.streaming
            => /\ last.ret = 0
               /\ NoBusTransaction
               /\ dev = entry.dev
               /\ hw = entry.hw

\* A start was entered while streaming.
C2_Witness == IsStart /\ entry.dev.streaming /\ last.ret = 0

\* C2 as stated: the device is streaming after every start, the first as
\* well as the second, and a start entered while streaming performs no bus
\* transaction.
C2_Original ==
  IsStart
    => /\ dev.streaming
       /\ (entry.dev.streaming => NoBusTransaction)

IsPowerOff ==
  \/ last.call.op = "set_power" /\ ~last.call.on
  \/ last.call.op = "runtime_suspend"

\* C3: set_power(off), called by the subdev or by the suspend callback, when
\* power is 1 ends with power 0 and streaming false, whatever the error
\* latch holds and whatever regulator and clock return.
C3_PowerOffAlwaysOff ==
  (IsPowerOff /\ entry.dev.power = 1)
    => /\ dev.power = 0
       /\ ~dev.streaming

\* The device was streaming and regulator_disable has failed.
C3_Witness ==
  /\ last.call.op = "set_power"
  /\ ~last.call.on
  /\ entry.dev.power = 1
  /\ entry.dev.streaming
  /\ \E i \in 1 .. Len(trace) : trace[i] = <<"regulator_disable", 0, 0, -5>>

\* C4: after power_on from Off (power 0, not streaming), start_streaming, stop_streaming, power_off
\* in a row with every bus and power primitive succeeding, the device is Off
\* and holds as many runtime-PM references as before the sequence.
C4_ScenarioEndsOffNoLeak ==
  scenario.step = 4
    => /\ dev.power = 0
       /\ ~dev.streaming
       /\ hw.pm_usage = scenario.base

\* The sequence has been completed, and the device did stream in it.
C4_Witness ==
  /\ scenario.step = 4
  /\ last.call.op = "set_power"
  /\ entry.dev.power = 1

(***************************************************************************)
(* Properties of a stream start with debug overrides (SpecDebug).          *)
(***************************************************************************)
IsStartFromIdle == IsStart /\ entry.dev.power = 1 /\ ~entry.dev.streaming

IsWrite(e) == e[1] \in {"w1", "w2"}

\* <<address, value, size>> of a write of the trace.
WriteOf(e) == <<e[2], e[3], IF e[1] = "w2" THEN 2 ELSE 1>>

WritesOf(tr) ==
  [i \in 1 .. Len(SelectSeq(tr, IsWrite)) |-> WriteOf(SelectSeq(tr, IsWrite)[i])]

\* Where s5k3l6xx_hw_set_config begins in the trace, 0 if it was not called.
ConfigAt ==
  IF \E i \in 1 .. Len(trace) : trace[i][1] = "Setting frame format"
  THEN CHOOSE i \in 1 .. Len(trace) : trace[i][1] = "Setting frame format"
  ELSE 0

\* The writes issued from s5k3l6xx_hw_set_config on; the writes before it
\* are those of the controls.
ProgramWrites ==
  IF ConfigAt = 0 THEN << >>
  ELSE WritesOf(SubSeq(trace, ConfigAt + 1, Len(trace)))

RegWrites(regs) ==
  [i \in 1 .. Len(regs) |->
     <<regs[i][1], IF regs[i][3] = 2 THEN regs[i][2] ELSE regs[i][2] % 256,
       regs[i][3]>>]

OverrideWrites(regs) ==
  [i \in 1 .. regs.entry_count |->
     <<regs.entries[i].address, regs.entries[i].value, 1>>]

\* The order claimed for a start of device d: mode registers, fixed
\* post-mode registers with the lane count, overrides, stream enable.
ExpectedProgram(d) ==
  RegWrites(Frame(d.frame_fmt).streamregs)
    \o RegWrites(setstream)
    \o << <<S5K3L6XX_REG_LANE_MODE, d.nlanes - 1, 1>> >>
    \o OverrideWrites(d.debug_regs)
    \o << <<S5K3L6XX_REG_MODE_SELECT, S5K3L6XX_MODE_STREAMING, 1>> >>

IsPrefix(a, b) == Len(a) <= Len(b) /\ SubSeq(b, 1, Len(a)) = a

\* C5 (amended): in a start from On-Idle the runtime-PM reference is taken before any
\* bus transaction, and the writes of the register program (those after the
\* controls' setup) follow the order mode registers, fixed post-mode
\* registers and lane count, overrides in table order, stream enable: what
\* is issued is a prefix of that sequence (a latched error cuts it short),
\* and all of it, ending with the stream enable as the last write, when the
\* start returns success.
C5_StartProgramOrder ==
  IsStartFromIdle
    => /\ Len(trace) > 0
       /\ trace[1][1] = "pm_runtime_get_sync"
       /\ IsPrefix(ProgramWrites, ExpectedProgram(entry.dev))
       /\ last.ret = 0
            => /\ ProgramWrites = ExpectedProgram(entry.dev)
               /\ WritesOf(trace)[Len(WritesOf(trace))]
                    = <<S5K3L6XX_REG_MODE_SELECT, S5K3L6XX_MODE_STREAMING, 1>>

\* C5 as stated: every start from On-Idle takes the runtime-PM reference
\* first and issues, after the controls' setup, all of the mode registers,
\* the fixed post-mode registers and lane count, the overrides and the stream
\* enable, the stream enable being the last write.
C5_Original ==
  IsStartFromIdle
    => /\ Len(trace) > 0
       /\ trace[1][1] = "pm_runtime_get_sync"
       /\ ProgramWrites = ExpectedProgram(entry.dev)
       /\ Len(WritesOf(trace)) > 0
       /\ WritesOf(trace)[Len(WritesOf(trace))]
            = <<S5K3L6XX_REG_MODE_SELECT, S5K3L6XX_MODE_STREAMING, 1>>

\* A start of a mode with registers of its own, two overrides in the table,
\* four lanes, has succeeded.
C5_Witness ==
  /\ IsStartFromIdle
  /\ last.ret = 0
  /\ entry.dev.frame_fmt = 1
  /\ entry.dev.nlanes = 4
  /\ entry.dev.debug_regs.entry_count = 2

NoBusFailure ==
  \A i \in 1 .. Len(trace) : IsBus(trace[i]) => Succeeded(trace[i])

\* Addresses written by the mode's program or the fixed post-mode set.
ProgramAddresses(d) ==
  {Frame(d.frame_fmt).streamregs[i][1] :
     i \in 1 .. Len(Frame(d.frame_fmt).streamregs)}
    \cup {setstream[i][1] : i \in 1 .. Len(setstream)}
    \cup {S5K3L6XX_REG_LANE_MODE}

OverridesOf(regs, a) ==
  {i \in 1 .. regs.entry_count : regs.entries[i].address = a}

Last(S) == CHOOSE i \in S : \A j \in S : j <= i

WritesTo(a) == {i \in 1 .. Len(trace) : IsWrite(trace[i]) /\ trace[i][2] = a}

\* C6: after a start in which no bus transaction fails, for every address
\* with an override that the mode's program or the fixed post-mode set also
\* writes, the last write the start issued to the address carries the value
\* of the last-inserted override for it; a start that returns success has
\* issued that write.
C6_LastOverrideWins ==
  (IsStart /\ ~entry.dev.streaming /\ NoBusFailure)
    => \A a \in ProgramAddresses(entry.dev) :
         OverridesOf(entry.dev.debug_regs, a) # {}
           => /\ WritesTo(a) # {}
                   => trace[Last(WritesTo(a))][3]
                        = entry.dev.debug_regs.entries[
                            Last(OverridesOf(entry.dev.debug_regs, a))].value
              /\ last.ret = 0 => WritesTo(a) # {}

\* Overrides 0x3403 := 0x07 then 0x3403 := 0x42 were in the table of a start
\* of a mode that writes 0x3403 itself.
C6_Witness ==
  /\ IsStart
  /\ ~entry.dev.streaming
  /\ NoBusFailure
  /\ last.ret = 0
  /\ S5K3L6XX_REG_AF \in ProgramAddresses(entry.dev)
  /\ entry.dev.debug_regs.entries
       = << [address |-> S5K3L6XX_REG_AF, value |-> 7],
            [address |-> S5K3L6XX_REG_AF, value |-> 66] >>

(***************************************************************************)
(* Properties of the format negotiator (SpecFmt).                          *)
(***************************************************************************)
IsTry == last.call.op = "try_cis_format"

CatalogIndices == 0 .. (Len(s5k3l6xx_frames) - 1)

CatalogCodes == {s5k3l6xx_frames[i + 1].code : i \in CatalogIndices}

\* req is entry i of the catalog in width, height and code.
IsExactly(req, i) ==
  /\ req.width = s5k3l6xx_frames[i + 1].width
  /\ req.height = s5k3l6xx_frames[i + 1].height
  /\ req.code = s5k3l6xx_frames[i + 1].code

AcceptedColorspace(req) ==
  req.colorspace \in {V4L2_COLORSPACE_DEFAULT, V4L2_COLORSPACE_RAW}

\* C7 (amended): a request that equals a catalog entry in width, height and
\* code, and whose colorspace is DEFAULT or RAW, is answered with the index
\* of that entry.
C7_ExactRequestExactEntry ==
  IsTry
    => \A i \in CatalogIndices :
         (IsExactly(last.call.req, i) /\ AcceptedColorspace(last.call.req))
           => last.ret = i

\* (4208, 3120, RAW8) was answered with index 2.
C7_Witness ==
  /\ IsTry
  /\ IsExactly(last.call.req, 2)
  /\ AcceptedColorspace(last.call.req)
  /\ last.ret = 2

\* C7 as stated: every request that equals a catalog entry in width, height
\* and code is answered with the index of that entry.
C7_Original ==
  IsTry
    => \A i \in CatalogIndices : IsExactly(last.call.req, i) => last.ret = i

\* Distance in size between catalog entry i and a request.
Distance(i, req) ==
  Abs(s5k3l6xx_frames[i + 1].width - req.width)
    + Abs(s5k3l6xx_frames[i + 1].height - req.height)

\* i is nearest to the request, and first-listed of the equally near.
NearestFirstListed(i, req) ==
  /\ i \in CatalogIndices
  /\ \A j \in CatalogIndices : Distance(i, req) <= Distance(j, req)
  /\ \A j \in CatalogIndices : j < i => Distance(j, req) > Distance(i, req)

IsSetFmtFromIdle ==
  /\ IsSetFmtActive
  /\ entry.dev.power = 1
  /\ ~entry.dev.streaming

\* C9 (amended): with the debug frame off, set_fmt in On-Idle fails with
\* -EINVAL and leaves the device as it was when the code is of no catalog
\* entry or the colorspace is neither DEFAULT nor RAW; otherwise it returns
\* 0, frame_fmt becomes the negotiated entry and nothing else changes.
C9_SetFmtIdle ==
  (IsSetFmtFromIdle /\ entry.dev.debug_frame = 0)
    => IF /\ last.call.req.code \in CatalogCodes
          /\ AcceptedColorspace(last.call.req)
       THEN /\ last.ret = 0
            /\ NearestFirstListed(dev.frame_fmt, last.call.req)
            /\ dev = [entry.dev EXCEPT !.frame_fmt = dev.frame_fmt]
       ELSE /\ last.ret = 0 - EINVAL
            /\ dev = entry.dev

\* A code of no catalog entry was refused while the active mode was not the
\* default one.
C9_Witness ==
  /\ IsSetFmtFromIdle
  /\ entry.dev.debug_frame = 0
  /\ entry.dev.frame_fmt = 2
  /\ last.call.req.code \notin CatalogCodes
  /\ last.ret = 0 - EINVAL

\* C9 as stated: in On-Idle a code of no catalog entry fails with -EINVAL
\* and changes nothing, and a code of the catalog succeeds with frame_fmt
\* the negotiated entry.
C9_Original ==
  IsSetFmtFromIdle
    => IF last.call.req.code \in CatalogCodes
       THEN /\ last.ret = 0
            /\ NearestFirstListed(dev.frame_fmt, last.call.req)
       ELSE /\ last.ret = 0 - EINVAL
            /\ dev = entry.dev

(***************************************************************************)
(* Properties of the debug override table (SpecTable).                     *)
(***************************************************************************)
IsAddValue == last.call.op = "add_value"

\* C10: an add of a 1-byte value to a table of fewer than 4096 entries
\* succeeds and appends it, so that 4096 adds to an empty table succeed; an
\* add to a table of 4096 entries returns -EFBIG and changes nothing; clear
\* leaves 0 entries, after which adds succeed again.
C10_TableCapacity ==
  /\ dev.debug_regs.entry_count <= REGSTABLE_SIZE
  /\ (IsAddValue /\ last.call.value < 256
        /\ entry.dev.debug_regs.entry_count < 4096)
       => /\ last.ret = 0
          /\ dev.debug_regs.entry_count = entry.dev.debug_regs.entry_count + 1
          /\ dev.debug_regs.entries[dev.debug_regs.entry_count]
               = [address |-> entry.dev.debug_address,
                  value |-> last.call.value]
  /\ (IsAddValue /\ entry.dev.debug_regs.entry_count = 4096)
       => /\ last.ret = 0 - EFBIG
          /\ dev = entry.dev
  /\ last.call.op = "clear"
       => /\ last.ret = 0
          /\ dev.debug_regs.entry_count = 0

\* The 4097th add was refused.
C10_Witness ==
  /\ IsAddValue
  /\ last.call.value < 256
  /\ entry.dev.debug_regs.entry_count = 4096
  /\ last.ret = 0 - EFBIG

(***************************************************************************)
(* Properties of locking (Spec).                                           *)
(***************************************************************************)
\* The handler holds state->lock when it makes call i of its trace.
LockHeldAt(i) ==
  Cardinality({j \in 1 .. (i - 1) : trace[j][1] = "mutex_lock"})
    > Cardinality({j \in 1 .. (i - 1) : trace[j][1] = "mutex_unlock"})

\* C11: every bus transaction of a handler is made while the handler holds
\* state->lock, and a handler releases the lock only when it holds it.
C11_LockHeld ==
  \A i \in 1 .. Len(trace) :
    (IsBus(trace[i]) \/ trace[i][1] = "mutex_unlock") => LockHeldAt(i)

(***************************************************************************)
(* Properties of failed transitions (Spec).                                *)
(***************************************************************************)
FailedTransactions ==
  {i \in 1 .. Len(trace) : IsBus(trace[i]) /\ ~Succeeded(trace[i])}

\* The first bus transaction of the handler that failed, 0 if none did.
FirstFailure ==
  IF FailedTransactions = {} THEN 0
  ELSE CHOOSE i \in FailedTransactions : \A j \in FailedTransactions : i <= j

\* What the failed transfer reported.
FailureResult == trace[FirstFailure][4]

\* The writes of the stream-enable value to MODE_SELECT that reached the
\* sensor.
StreamEnableWrites ==
  {j \in 1 .. Len(trace) :
     /\ trace[j][1] = "w1"
     /\ Succeeded(trace[j])
     /\ trace[j][2] = S5K3L6XX_REG_MODE_SELECT
     /\ trace[j][3] = S5K3L6XX_MODE_STREAMING}

\* A transfer failed with a negative error, or with any non-zero result
\* once the register program had begun.
StartFailedOnBus ==
  /\ IsStartFromIdle
  /\ FirstFailure # 0
  /\ \/ FailureResult < 0
     \/ FailureResult # 0 /\ ConfigAt # 0 /\ FirstFailure > ConfigAt

\* C12 (amended): when a bus transaction of a start from On-Idle fails with a
\* negative error (or with any non-zero result while the register program is
\* written), the transition is not made: the call returns what the transfer
\* reported, the latch is drained, no bus transaction follows the failed one,
\* streaming stays false and nothing else of the device changes; the stream
\* enable has been written only if the failed transaction is its read-back.
C12_FailedStart ==
  StartFailedOnBus
    => /\ last.ret = FailureResult
       /\ dev = [entry.dev EXCEPT !.error = 0]
       /\ ~dev.streaming
       /\ \A j \in (FirstFailure + 1) .. Len(trace) : ~IsBus(trace[j])
       /\ \A j \in StreamEnableWrites :
            /\ j = FirstFailure - 1
            /\ trace[FirstFailure][1] = "rd"

\* The read-back of the stream-enable write failed: the sensor streams and
\* the driver does not say so.
C12_Witness ==
  /\ StartFailedOnBus
  /\ StreamEnableWrites # {}
  /\ last.ret = -5
  /\ ~dev.streaming

\* C12 as stated: when a bus transaction of a start from On-Idle fails, the
\* call returns what the transfer reported, the device is streaming and the
\* stream enable has been written.
C12_Original ==
  (IsStartFromIdle /\ FirstFailure # 0)
    => /\ last.ret = FailureResult
       /\ dev.streaming
       /\ StreamEnableWrites # {}

IsStopFromStreaming ==
  /\ last.call.op = "s_stream"
  /\ ~last.call.on
  /\ entry.dev.power = 1
  /\ entry.dev.streaming

\* The handler wrote the stream-disable value to MODE_SELECT.
StreamDisableWrites ==
  {j \in 1 .. Len(trace) :
     /\ trace[j][1] = "w1"
     /\ trace[j][2] = S5K3L6XX_REG_MODE_SELECT
     /\ trace[j][3] = S5K3L6XX_MODE_STANDBY}

Releases == {j \in 1 .. Len(trace) : trace[j][1] = "pm_runtime_put"}

\* C13: a stop from On-Streaming writes the stream-disable value to
\* MODE_SELECT, releases the runtime-PM reference exactly once, leaves the
\* device On-Idle, and returns the drained error: what a failed transfer
\* reported, 0 when none failed.
C13_StopStreaming ==
  IsStopFromStreaming
    => /\ StreamDisableWrites # {}
       /\ Cardinality(Releases) = 1
       /\ hw.pm_usage = entry.hw.pm_usage - 1
       /\ dev.power = 1
       /\ ~dev.streaming
       /\ last.ret = (IF FirstFailure = 0 THEN 0 ELSE FailureResult)

(***************************************************************************)
(* Properties of the power sequence (Spec).                                *)
(***************************************************************************)
PowerSteps == {"regulator_enable", "clk_set_rate", "clk_prepare_enable"}

FailedPowerSteps ==
  {i \in 1 .. Len(trace) : trace[i][1] \in PowerSteps /\ trace[i][4] < 0}

\* The first step of s5k3l6xx_power_on that failed, 0 if none did.
FirstFailedStep ==
  IF FailedPowerSteps = {} THEN 0
  ELSE CHOOSE i \in FailedPowerSteps : \A j \in FailedPowerSteps : i <= j

CallsOf(tag) == {i \in 1 .. Len(trace) : trace[i][1] = tag}

\* The regulator was enabled before the failed step.
RegulatorWasEnabled ==
  \E i \in CallsOf("regulator_enable") : trace[i][4] = 0

IsPowerOffFromOn == IsPowerOff /\ entry.dev.power = 1

\* s5k3l6xx_power_off called in machine state m calls regulator_disable.
PowerOffDisables(m) ==
  \E i \in 1 .. Len(s5k3l6xx_power_off(m).m.trace) :
    s5k3l6xx_power_off(m).m.trace[i][1] = "regulator_disable"

\* C15: power-off reports no failure whatever regulator_disable returns:
\* s5k3l6xx_power_off returns 0 in every state, s_power(0) and the suspend
\* callback return 0, the reset line is asserted before the clock is
\* disabled, and regulator_disable is called, once and after the clock is
\* disabled, only if the regulator is enabled.
C15_PowerOffNeverFails ==
  /\ \A pw \in PowerOutcomes :
       /\ s5k3l6xx_power_off(Machine([plan |-> NoFault, pw |-> pw])).ret = 0
       /\ PowerOffDisables(Machine([plan |-> NoFault, pw |-> pw]))
            <=> regulator_is_enabled(Machine([plan |-> NoFault, pw |-> pw]))
  /\ IsPowerOff => last.ret = 0
  /\ IsPowerOffFromOn
       => /\ Cardinality(CallsOf("gpio_assert")) = 1
          /\ Cardinality(CallsOf("clk_disable_unprepare")) = 1
          /\ \A i \in CallsOf("gpio_assert"), j \in CallsOf("clk_disable_unprepare") :
               i < j
          /\ hw.rst = "asserted"
          /\ Cardinality(CallsOf("regulator_disable")) <= 1
          /\ \A i \in CallsOf("regulator_disable"), j \in CallsOf("clk_disable_unprepare") :
               j < i
          /\ entry.hw.supply > 0 => CallsOf("regulator_disable") # {}

\* regulator_disable failed in a power-off, which returned 0.
C15_Witness ==
  /\ IsPowerOffFromOn
  /\ \E i \in CallsOf("regulator_disable") : trace[i][4] < 0
  /\ last.ret = 0
  /\ dev.power = 0

(***************************************************************************)
(* The register transport by itself (SpecTransport): reads, writes and     *)
(* drains in any order, the latch kept from one call to the next.          *)
(***************************************************************************)
\* Registers the driver reads and writes through the transport.
TransportAddresses ==
  {S5K3L6XX_REG_MODE_SELECT, S5K3L6XX_REG_ANALOG_GAIN,
   S5K3L6XX_REG_TEST_PATTERN_MODE}

\* What the read buffer holds after the transfer.
TransportValues == {0, 48, 255}

TransportInputs(maxk) ==
  {[plan |-> p, pw |-> PwOk, res |-> v] :
     p \in FaultPlans(maxk), v \in TransportValues}

reg_read ==
  /\ Idle
  /\ \E a \in TransportAddresses, in \in TransportInputs(1) :
       Commit(s5k3l6xx_read(Machine(in), a),
              Call("read", FALSE, a, NoMf, in.res), NoMf)

reg_write ==
  /\ Idle
  /\ \E a \in TransportAddresses, v \in {0, 1}, in \in TransportInputs(2) :
       Commit([ret |-> 0, m |-> s5k3l6xx_write(Machine(in), a, v)],
              Call("write", FALSE, a, NoMf, v), NoMf)

reg_write2 ==
  /\ Idle
  /\ \E a \in TransportAddresses, v \in {32, 512}, in \in TransportInputs(1) :
       Commit([ret |-> 0, m |-> s5k3l6xx_i2c_write2(Machine(in), a, v)],
              Call("write2", FALSE, a, NoMf, v), NoMf)

clear_error ==
  /\ Idle
  /\ Commit(s5k3l6xx_clear_error(Machine(NoInput)),
            Call("clear_error", FALSE, 0, NoMf, 0), NoMf)

InitTransport == InitWith({2}, {0}, {0, -5, 1})

NextTransport ==
  \/ return_to_caller
  \/ reg_read
  \/ reg_write
  \/ reg_write2
  \/ clear_error

SpecTransport == InitTransport /\ [][NextTransport]_vars

(***************************************************************************)
(* Properties of the register transport (SpecTransport).                   *)
(***************************************************************************)
IsTransfer == last.call.op \in {"read", "write", "write2"}

\* C16: while an error is latched a register read, 1-byte write or 2-byte
\* write issues no bus transaction and leaves the latch and the rest of the
\* device as they are, and a read returns 0.
C16_LatchedNoOp ==
  (IsTransfer /\ entry.dev.error # 0)
    => /\ NoBusTransaction
       /\ dev = entry.dev
       /\ hw = entry.hw
       /\ last.call.op = "read" => last.ret = 0

\* A read made with -5 latched returned 0 although the buffer held 0x30.
C16_Witness ==
  /\ last.call.op = "read"
  /\ entry.dev.error = -5
  /\ last.call.value = 48
  /\ last.ret = 0
  /\ trace = << >>

\* C17: a transfer that reports anything but the full number of messages (a
\* negative error, 0 messages, 1 of the 2 messages of a read) leaves the
\* latch set, to what it reported; and s5k3l6xx_clear_error returns the
\* latched value, a failure when one is latched, and empties the latch.
C17_FailureLatched ==
  /\ (IsTransfer /\ FirstFailure # 0)
       => /\ dev.error # 0
          /\ dev.error = FailureResult
  /\ last.call.op = "clear_error"
       => /\ last.ret = entry.dev.error
          /\ dev.error = 0

\* A request for the state the device is already in.
IsNoOpTransition ==
  \/ last.call.op = "s_stream" /\ ~last.call.on /\ ~entry.dev.streaming
  \/ last.call.op = "set_power" /\ last.call.on /\ entry.dev.power = 1
  \/ last.call.op = "set_power" /\ ~last.call.on /\ entry.dev.power = 0

\* C18: a stop while not streaming, a power-on while on and a power-off
\* while off return 0, call nothing but the lock (no bus transaction, no
\* regulator, clock, GPIO or runtime-PM call) and leave the device and the
\* hardware as they were.
C18_NoOpTransitions ==
  IsNoOpTransition
    => /\ last.ret = 0
       /\ dev = entry.dev
       /\ hw = entry.hw
       /\ \A i \in 1 .. Len(trace) :
            trace[i][1] \in {"mutex_lock", "mutex_unlock"}

\* s_power(1) on a powered, streaming sensor took and released the lock and
\* did nothing else.
C18_Witness ==
  /\ last.call.op = "set_power"
  /\ last.call.on
  /\ entry.dev.power = 1
  /\ entry.dev.streaming
  /\ last.ret = 0
  /\ Len(trace) = 2
  /\ dev.streaming

(***************************************************************************)
(* Control writes between power and streaming transitions (SpecCtrl).      *)
(***************************************************************************)
\* Values inside the range s5k3l6xx_initialize_ctrls() gives each control:
\* the default, and another value for the analogue gain (its maximum), the
\* test pattern (solid, bars) and the red component (its maximum).
CtrlValues(id) ==
  CASE id = "V4L2_CID_ANALOGUE_GAIN" -> {32, 512}
    [] id = "V4L2_CID_TEST_PATTERN" -> {0, 1, 2}
    [] id = "V4L2_CID_TEST_PATTERN_RED" -> {512, 1023}
    [] OTHER -> {s5k3l6xx_ctrl_defaults[id]}

\* .s_ctrl for control number c of the handler, the bus following one of
\* `plans`
SetCtrl(plans) ==
  /\ Idle
  /\ \E c \in 1 .. Len(s5k3l6xx_ctrl_ids), p \in plans :
       \E val \in CtrlValues(s5k3l6xx_ctrl_ids[c]) :
         Commit(ctrl_write(
                  s5k3l6xx_s_ctrl(Machine([plan |-> p, pw |-> PwOk]),
                                  s5k3l6xx_ctrl_ids[c], val),
                  s5k3l6xx_ctrl_ids[c], val),
                Call("s_ctrl", FALSE, c, NoMf, val), NoMf)

\* A colour component costs at most 3 transfers: the data write, the mode
\* write and its read-back.
s_ctrl == SetCtrl(FaultPlans(3))

ctrl_set_power == SetPower({PwOk})

ctrl_start_streaming == StartStreaming({NoInput})

ctrl_stop_streaming == StopStreaming({NoFault})

InitCtrl == InitWith({2}, {0}, {0, -5})

NextCtrl ==
  \/ return_to_caller
  \/ s_ctrl
  \/ ctrl_set_power
  \/ ctrl_start_streaming
  \/ ctrl_stop_streaming

SpecCtrl == InitCtrl /\ [][NextCtrl]_vars

(***************************************************************************)
(* Properties of the control surface (SpecCtrl).                           *)
(***************************************************************************)
IsCtrlWrite == last.call.op = "s_ctrl"

\* The control the handler was called for.
CtrlId == s5k3l6xx_ctrl_ids[last.call.which]

IsPmCall(e) ==
  e[1] \in {"pm_runtime_get_sync", "pm_runtime_put", "pm_runtime_put_noidle",
            "pm_runtime_get_if_in_use"}

\* What the handler returns and leaves when called for control c with val.
CtrlHandler(c, val) ==
  s5k3l6xx_s_ctrl(Machine(NoInput), s5k3l6xx_ctrl_ids[c], val)

\* C19: a write of any control made while power is 0 returns 0, makes no bus
\* transaction and no runtime-PM call, and leaves the error latch, every
\* other field of the device and the hardware as they were: the handler
\* changes nothing at all, and the write as a whole only leaves the
\* accepted value in the control.
C19_CtrlWhilePoweredOff ==
  /\ dev.power = 0
       => \A c \in 1 .. Len(s5k3l6xx_ctrl_ids) :
            \A val \in CtrlValues(s5k3l6xx_ctrl_ids[c]) :
              /\ CtrlHandler(c, val).ret = 0
              /\ CtrlHandler(c, val).m.dev = dev
              /\ CtrlHandler(c, val).m.hw = hw
  /\ (IsCtrlWrite /\ entry.dev.power = 0)
       => /\ last.ret = 0
          /\ NoBusTransaction
          /\ \A i \in 1 .. Len(trace) : ~IsPmCall(trace[i])
          /\ dev.error = entry.dev.error
          /\ dev = [entry.dev EXCEPT !.ctrls[CtrlId] = last.call.value]
          /\ hw = entry.hw

\* Solid colour was chosen with the sensor off and -5 latched: accepted,
\* nothing written, the latch still -5.
C19_Witness ==
  /\ IsCtrlWrite
  /\ entry.dev.power = 0
  /\ entry.dev.error = -5
  /\ CtrlId = "V4L2_CID_TEST_PATTERN"
  /\ last.call.value = S5K3L6XX_TEST_PATTERN_SOLID_COLOR
  /\ last.ret = 0
  /\ dev.error = -5
  /\ ~dev.apply_test_solid
  /\ Len(trace) = 2

TestDataRegs ==
  [ V4L2_CID_TEST_PATTERN_RED |-> S5K3L6XX_REG_TEST_DATA_RED,
    V4L2_CID_TEST_PATTERN_GREENR |-> S5K3L6XX_REG_TEST_DATA_GREENR,
    V4L2_CID_TEST_PATTERN_BLUE |-> S5K3L6XX_REG_TEST_DATA_BLUE,
    V4L2_CID_TEST_PATTERN_GREENB |-> S5K3L6XX_REG_TEST_DATA_GREENB ]

\* A colour component written with the sensor on and the latch empty.
IsColourWrite ==
  /\ IsCtrlWrite
  /\ CtrlId \in DOMAIN TestDataRegs
  /\ entry.dev.power = 1
  /\ entry.dev.error = 0

IsTestDataReg(a) == \E id \in DOMAIN TestDataRegs : TestDataRegs[id] = a

\* Writes of the handler to a colour data register.
TestDataWrites ==
  {i \in 1 .. Len(trace) : IsWrite(trace[i]) /\ IsTestDataReg(trace[i][2])}

\* Writes of the handler to the test-pattern mode register.
TestModeWrites ==
  {i \in 1 .. Len(trace) :
     IsWrite(trace[i]) /\ trace[i][2] = S5K3L6XX_REG_TEST_PATTERN_MODE}

\* The first bus transaction of the handler, 0 if it made none.
FirstBus ==
  IF NoBusTransaction THEN 0
  ELSE CHOOSE i \in 1 .. Len(trace) :
         IsBus(trace[i]) /\ \A j \in 1 .. (i - 1) : ~IsBus(trace[j])

\* C20 (as stated): a colour component reaches a data register only when
\* solid colour is in effect, and then the mode register is written too;
\* with another pattern the write returns 0 and writes no data register.
C20_Original ==
  IsColourWrite
    => /\ TestDataWrites # {}
            => (entry.dev.apply_test_solid /\ TestModeWrites # {})
       /\ ~entry.dev.apply_test_solid
            => (last.ret = 0 /\ TestDataWrites = {})

\* C20 (amended): a colour component written with the sensor on and the
\* latch empty is always sent, as the first transaction, a 2-byte write of
\* the value's low 10 bits to the component's own data register, whatever
\* pattern is in effect.  The mode register is written only when solid
\* colour is in effect, after the data register and with the solid-colour
\* value, and always when solid colour is in effect and the data write
\* succeeded.  A write none of whose transfers failed returns 0.
C20_ColourAlwaysWritten ==
  IsColourWrite
    => /\ FirstBus # 0
       /\ TestDataWrites = {FirstBus}
       /\ trace[FirstBus][1] = "w2"
       /\ trace[FirstBus][2] = TestDataRegs[CtrlId]
       /\ trace[FirstBus][3] = last.call.value % 1024
       /\ \A i \in TestModeWrites :
            /\ entry.dev.apply_test_solid
            /\ i > FirstBus
            /\ trace[i][1] = "w1"
            /\ trace[i][3] = S5K3L6XX_TEST_PATTERN_SOLID_COLOR
       /\ (entry.dev.apply_test_solid /\ Succeeded(trace[FirstBus]))
            => TestModeWrites # {}
       /\ FirstFailure = 0 => last.ret = 0

\* Red was written while the bars pattern was selected: the data register
\* was written, the mode register was not.
C20_Witness ==
  /\ IsColourWrite
  /\ CtrlId = "V4L2_CID_TEST_PATTERN_RED"
  /\ entry.dev.ctrls["V4L2_CID_TEST_PATTERN"] = 2
  /\ ~entry.dev.apply_test_solid
  /\ last.call.value = 1023
  /\ last.ret = 0
  /\ TestDataWrites # {}
  /\ TestModeWrites = {}

IsPoweredCtrlWrite == IsCtrlWrite /\ entry.dev.power = 1

\* References taken minus references released by the handler before its
\* i-th call.
PmTakenBefore(i) ==
  Cardinality({j \in 1 .. (i - 1) : trace[j][1] = "pm_runtime_get_if_in_use"
                                    /\ entry.hw.rpm_active
                                    /\ entry.hw.pm_usage > 0})
    - Cardinality({j \in 1 .. (i - 1) : trace[j][1] = "pm_runtime_put"})

\* The device was in use when the handler was entered: the query takes a
\* reference.
InUseAtEntry == entry.hw.rpm_active /\ entry.hw.pm_usage > 0

C22_Original ==
  /\ \/ dev.frame_fmt \in 0 .. (FrameDebug - 1)
     \/ dev.frame_fmt = FrameDebug /\ dev.debug_frame # 0
  /\ (~Idle /\ entry.dev.streaming /\ dev.streaming)
       => dev.frame_fmt = entry.dev.frame_fmt

\* C22 (amended): the active frame is always one catalog entry or the debug
\* frame; it is changed only by an ACTIVE set_fmt that returns 0, which
\* selects the debug frame exactly when the debug-frame mode is on at that
\* call, so the debug frame stays active after the mode is switched off
\* until the next successful set_fmt; and no handler entered while
\* streaming changes it.
C22_ActiveFrame ==
  /\ dev.frame_fmt \in FrameRefs
  /\ ~Idle
       => /\ dev.frame_fmt # entry.dev.frame_fmt
               => (IsSetFmtActive /\ last.ret = 0)
          /\ (IsSetFmtActive /\ last.ret = 0)
               => (dev.frame_fmt = FrameDebug <=> entry.dev.debug_frame # 0)
          /\ entry.dev.streaming => dev.frame_fmt = entry.dev.frame_fmt

\* While streaming with the debug frame active and the debug-frame mode off
\* again, a set_fmt for a catalog size was refused and the debug frame is
\* still the active frame.
C22_Witness ==
  /\ IsSetFmtActive
  /\ entry.dev.streaming
  /\ entry.dev.frame_fmt = FrameDebug
  /\ entry.dev.debug_frame = 0
  /\ last.call.req.width = 4208
  /\ last.ret = 0 - EBUSY
  /\ dev.frame_fmt = FrameDebug
  /\ dev.streaming

(***************************************************************************)
(* The pad operations and open, between format, power and streaming        *)
(* transitions (SpecPad).                                                  *)
(***************************************************************************)
\* Largest index a caller enumerates with.
MaxEnumIndex == 4

\* Buffers a caller passes: two catalog sizes, a size between entries, a
\* code and a colorspace the catalog does not have.
PadRequests ==
  { [width |-> 1052, height |-> 780, code |-> MEDIA_BUS_FMT_SGRBG8_1X8,
     colorspace |-> V4L2_COLORSPACE_DEFAULT, field |-> 0],
    [width |-> 4208, height |-> 3120, code |-> MEDIA_BUS_FMT_SGRBG8_1X8,
     colorspace |-> V4L2_COLORSPACE_RAW, field |-> 0],
    [width |-> 2000, height |-> 1500, code |-> MEDIA_BUS_FMT_SGRBG8_1X8,
     colorspace |-> V4L2_COLORSPACE_DEFAULT, field |-> 0],
    [width |-> 2104, height |-> 1560, code |-> 12298,
     colorspace |-> V4L2_COLORSPACE_DEFAULT, field |-> 0],
    [width |-> 1052, height |-> 780, code |-> MEDIA_BUS_FMT_SGRBG8_1X8,
     colorspace |-> 8, field |-> 0] }

PadWhich == {V4L2_SUBDEV_FORMAT_TRY, V4L2_SUBDEV_FORMAT_ACTIVE}

\* .get_fmt
get_fmt ==
  /\ Idle
  /\ \E which \in PadWhich, req \in PadRequests :
       CommitFmt(s5k3l6xx_get_fmt(Machine(NoInput), which, req),
                 Call("get_fmt", FALSE, which, req, 0))

\* .set_fmt, TRY and ACTIVE
pad_set_fmt ==
  /\ Idle
  /\ \E which \in PadWhich, req \in PadRequests :
       CommitFmt(s5k3l6xx_set_fmt(Machine(NoInput), which, req),
                 Call("set_fmt", FALSE, which, req, 0))

\* .open
open ==
  /\ Idle
  /\ Commit(s5k3l6xx_open(Machine(NoInput)),
            Call("open", FALSE, 0, NoMf, 0), NoMf)

\* .enum_mbus_code; the caller's struct is left in mf.
enum_mbus_code ==
  /\ Idle
  /\ \E index \in 0 .. MaxEnumIndex :
       Commit([ret |-> s5k3l6xx_enum_mbus_code([index |-> index, code |-> 0]).ret,
               m |-> Machine(NoInput)],
              Call("enum_mbus_code", FALSE, index, NoMf, 0),
              s5k3l6xx_enum_mbus_code([index |-> index, code |-> 0]).code)

NoFse(index, code) ==
  [index |-> index, code |-> code, min_width |-> 0, max_width |-> 0,
   min_height |-> 0, max_height |-> 0]

\* .enum_frame_size; the caller's struct is left in mf.
enum_frame_size ==
  /\ Idle
  /\ \E index \in 0 .. MaxEnumIndex, code \in RequestCodes :
       Commit([ret |-> s5k3l6xx_enum_frame_size(NoFse(index, code)).ret,
               m |-> Machine(NoInput)],
              Call("enum_frame_size", FALSE, index, NoMf, code),
              s5k3l6xx_enum_frame_size(NoFse(index, code)).fse)

NextPad ==
  \/ return_to_caller
  \/ get_fmt
  \/ pad_set_fmt
  \/ open
  \/ enum_mbus_code
  \/ enum_frame_size
  \/ write_debug_frame
  \/ ctrl_set_power
  \/ ctrl_start_streaming
  \/ ctrl_stop_streaming

SpecPad == InitTable /\ [][NextPad]_vars

(***************************************************************************)
(* Properties of the pad operations (SpecPad).                             *)
(***************************************************************************)
\* A call that only reads or negotiates: TRY set_fmt and get_fmt, ACTIVE
\* get_fmt, open and the two enumerations.
IsQuery ==
  \/ last.call.op \in {"get_fmt", "open", "enum_mbus_code", "enum_frame_size"}
  \/ last.call.op = "set_fmt" /\ last.call.which = V4L2_SUBDEV_FORMAT_TRY

\* C23: TRY set_fmt and get_fmt, ACTIVE get_fmt, open and the enumerations
\* leave the active frame and every other field of the device, and the
\* hardware, as they were, and make no call to a collaborator; only an
\* ACTIVE set_fmt that returns 0 changes the active frame.
C23_QueriesChangeNothing ==
  /\ IsQuery
       => /\ dev = entry.dev
          /\ hw = entry.hw
          /\ trace = << >>
  /\ (~Idle /\ dev.frame_fmt # entry.dev.frame_fmt)
       => (IsSetFmtActive /\ last.ret = 0)

\* A TRY set_fmt for the largest size was accepted while the smallest entry
\* stayed the active frame.
C23_Witness ==
  /\ last.call.op = "set_fmt"
  /\ last.call.which = V4L2_SUBDEV_FORMAT_TRY
  /\ last.call.req.width = 4208
  /\ last.ret = 0
  /\ try_fmt.width = 4208
  /\ dev.frame_fmt = 0
  /\ entry.dev.frame_fmt = 0

IsGetFmtActive ==
  /\ last.call.op = "get_fmt"
  /\ last.call.which = V4L2_SUBDEV_FORMAT_ACTIVE

\* C25: an ACTIVE get_fmt made while catalog entry m is the active frame
\* returns 0 and m's width, height and code, whatever the caller's buffer
\* held.
C25_GetFmtReportsActive ==
  (IsGetFmtActive /\ entry.dev.frame_fmt # FrameDebug)
    => /\ last.ret = 0
       /\ mf.width = Frame(entry.dev.frame_fmt).width
       /\ mf.height = Frame(entry.dev.frame_fmt).height
       /\ mf.code = Frame(entry.dev.frame_fmt).code

IsEnumMbusCode == last.call.op = "enum_mbus_code"

IsEnumFrameSize == last.call.op = "enum_frame_size"

\* The sizes enum_frame_size reports for a code over the indices it
\* accepts.
EnumeratedSizes(code) ==
  {<<s5k3l6xx_enum_frame_size(NoFse(i, code)).fse.max_width,
     s5k3l6xx_enum_frame_size(NoFse(i, code)).fse.max_height>> :
     i \in {j \in 0 .. MaxEnumIndex :
              s5k3l6xx_enum_frame_size(NoFse(j, code)).ret = 0}}

\* The sizes of the catalog entries with a code.
CatalogSizes(code) ==
  {<<s5k3l6xx_frames[i].width, s5k3l6xx_frames[i].height>> :
     i \in {j \in 1 .. Len(s5k3l6xx_frames) : s5k3l6xx_frames[j].code = code}}

\* C26: enum_mbus_code returns the code of catalog entry i for every index
\* i below the catalog size and -EINVAL for every larger index, and the
\* sizes enum_frame_size reports for a code over the indices it accepts are
\* the sizes of the catalog entries with that code.
C26_EnumerationIteratesCatalog ==
  /\ IsEnumMbusCode
       => IF last.call.which < Len(s5k3l6xx_frames)
          THEN /\ last.ret = 0
               /\ mf.code = s5k3l6xx_frames[last.call.which + 1].code
          ELSE last.ret = 0 - EINVAL
  /\ IsEnumFrameSize
       => EnumeratedSizes(last.call.value) = CatalogSizes(last.call.value)

(***************************************************************************)
(* Properties of the debug override table at a start (SpecDebug).          *)
(***************************************************************************)
\* The program of a start of device d without the overrides.
ProgramWithoutOverrides(d) ==
  ExpectedProgram([d EXCEPT !.debug_regs.entry_count = 0])

\* No debug switch is on: the module parameter "debug" is 0 and the
\* debug-frame mode is off.
NoDebugFlag == debug = 0 /\ entry.dev.debug_frame = 0

ProgramReads ==
  IF ConfigAt = 0 THEN 0
  ELSE Cardinality({i \in (ConfigAt + 1) .. Len(trace) : trace[i][1] = "rd"})

\* 1-byte writes, each read back, issued from s5k3l6xx_hw_set_config on.
ProgramByteWrites ==
  IF ConfigAt = 0 THEN 0
  ELSE Cardinality({i \in (ConfigAt + 1) .. Len(trace) : trace[i][1] = "w1"})

FullTable ==
  [entry_count |-> REGSTABLE_SIZE,
   entries |-> [i \in 1 .. REGSTABLE_SIZE |->
                  [address |-> S5K3L6XX_REG_AF, value |-> 66]]]

\* The device with its table at capacity.
FullMachine == [Machine(NoInput) EXCEPT !.dev.debug_regs = FullTable]

\* C27: an add that returns 0 puts one entry, the address register and the
\* value, after the entries the table had and leaves those as they were,
\* whether or not the address is in the table already; an add of a value
\* wider than a byte, or to a table at capacity, fails and changes nothing;
\* nothing but add and clear changes the table; and a start writes the
\* entries in table order (a prefix of them when a transfer fails), so the
\* last entry for an address is written last.
C27_TableAppendOnly ==
  /\ IsAddValue
       => /\ last.ret = 0 <=> last.call.value < 256
          /\ last.ret # 0
               => (last.ret = 0 - EINVAL /\ dev = entry.dev)
          /\ last.ret = 0
               => /\ dev.debug_regs.entry_count
                       = entry.dev.debug_regs.entry_count + 1
                  /\ SubSeq(dev.debug_regs.entries, 1,
                            entry.dev.debug_regs.entry_count)
                       = SubSeq(entry.dev.debug_regs.entries, 1,
                                entry.dev.debug_regs.entry_count)
                  /\ dev.debug_regs.entries[dev.debug_regs.entry_count]
                       = [address |-> entry.dev.debug_address,
                          value |-> last.call.value]
                  /\ [dev EXCEPT !.debug_regs = entry.dev.debug_regs]
                       = entry.dev
          /\ \A v \in DebugValues :
               /\ debug_add(FullMachine, v).ret = 0 - EFBIG
               /\ debug_add(FullMachine, v).m = FullMachine
  /\ (~Idle /\ last.call.op \notin {"add_value", "clear"})
       => dev.debug_regs = entry.dev.debug_regs
  /\ IsStartFromIdle
       => /\ IsPrefix(ProgramWrites, ExpectedProgram(entry.dev))
          /\ last.ret = 0
               => \A i \in 1 .. entry.dev.debug_regs.entry_count :
                    ProgramWrites[Len(ProgramWithoutOverrides(entry.dev))
                                    - 1 + i]
                      = <<entry.dev.debug_regs.entries[i].address,
                          entry.dev.debug_regs.entries[i].value, 1>>

\* A second value was added for an address the table held already.
C27_Witness ==
  /\ IsAddValue
  /\ last.ret = 0
  /\ dev.debug_regs.entry_count = 2
  /\ dev.debug_regs.entries[1].address = dev.debug_regs.entries[2].address
  /\ dev.debug_regs.entries[1].value = 66
  /\ dev.debug_regs.entries[2].value = 7
  /\ entry.dev.debug_regs.entries[1].value = 66

(***************************************************************************)
(* The debug-frame mode with overrides in the table (SpecDebugFrame).      *)
(***************************************************************************)
NextDebugFrame ==
  \/ return_to_caller
  \/ write_debug_frame
  \/ write_address
  \/ write_add_value
  \/ set_fmt
  \/ ctrl_set_power
  \/ ctrl_start_streaming
  \/ ctrl_stop_streaming

SpecDebugFrame == InitTable /\ [][NextDebugFrame]_vars

ConcPlans == {NoFault, [k |-> 1, r |-> -5]}

ConcInput(p) == [plan |-> p, pw |-> PwOk]

\* Thread t moves to pc with local ret.
ConcAt(c, t, pc, ret) == [c EXCEPT !.pc[t] = pc, !.ret[t] = ret]

\* One step of a thread: the device as the step leaves it.
ConcStep(m, c) ==
  /\ InBounds(m)
  /\ dev' = m.dev
  /\ hw' = m.hw
  /\ try_fmt' = m.try_fmt
  /\ conc' = c
  /\ UNCHANGED <<debug, mf, trace, last, entry, scenario, mhdp, tps>>

\* if (state->streaming == !!on) return 0;  read without the lock
s_stream_call(t, on) ==
  /\ conc.pc[t] = "idle"
  /\ ConcStep(Machine(ConcInput(NoFault)),
              [ConcAt(conc, t,
                      IF dev.streaming = on THEN "idle"
                      ELSE IF on THEN "get_sync" ELSE "lock_off", 0)
                 EXCEPT !.took[t] = FALSE, !.on[t] = on])

s_stream_enter(t) == \E on \in BOOLEAN : s_stream_call(t, on)

\* ret = pm_runtime_get_sync(); the resume callback locks the mutex in
\* s5k3l6xx_set_power, and the PM core runs one callback at a time.
s_stream_get_sync(t) ==
  /\ conc.pc[t] = "get_sync"
  /\ conc.pc[PmWorker] = "idle"
  /\ hw.rpm_active \/ conc.lock = 0
  /\ \E p \in ConcPlans :
       LET g == pm_runtime_get_sync(Machine(ConcInput(p)))
       IN  IF g.ret < 0
           THEN ConcStep(pm_runtime_put_noidle(g.m),
                         ConcAt(conc, t, "idle", g.ret))
           ELSE ConcStep(g.m, ConcAt(conc, t, "ctrl_setup", g.ret))

\* ret = v4l2_ctrl_handler_setup(); if (ret < 0) goto out;  each s_ctrl
\* locks the mutex
s_stream_ctrl_setup(t) ==
  /\ conc.pc[t] = "ctrl_setup"
  /\ conc.lock = 0
  /\ \E p \in ConcPlans :
       LET h == v4l2_ctrl_handler_setup(Machine(ConcInput(p)))
       IN  ConcStep(h.m, ConcAt(conc, t,
                                IF h.ret < 0 THEN "out" ELSE "lock_on", h.ret))

\* mutex_lock(&state->lock) of either branch
s_stream_lock(t) ==
  /\ conc.pc[t] \in {"lock_on", "lock_off"}
  /\ conc.lock = 0
  /\ ConcStep(Machine(ConcInput(NoFault)),
              [ConcAt(conc, t, IF conc.pc[t] = "lock_on" THEN "config"
                               ELSE "stop_write", conc.ret[t])
                 EXCEPT !.lock = t, !.took[t] = TRUE])

\* s5k3l6xx_hw_set_config(state)
s_stream_config(t) ==
  /\ conc.pc[t] = "config"
  /\ \E p \in ConcPlans :
       ConcStep(s5k3l6xx_hw_set_config(Machine(ConcInput(p))),
                ConcAt(conc, t, "stream", conc.ret[t]))

\* s5k3l6xx_hw_set_stream(state, 1)
s_stream_stream(t) ==
  /\ conc.pc[t] = "stream"
  /\ \E p \in ConcPlans :
       ConcStep(s5k3l6xx_hw_set_stream(Machine(ConcInput(p)), TRUE),
                ConcAt(conc, t, "drain", conc.ret[t]))

\* s5k3l6xx_hw_set_stream(state, 0); pm_runtime_put()
s_stream_stop_write(t) ==
  /\ conc.pc[t] = "stop_write"
  /\ \E p \in ConcPlans :
       ConcStep(pm_runtime_put(
                  s5k3l6xx_hw_set_stream(Machine(ConcInput(p)), FALSE)),
                ConcAt(conc, t, "drain", conc.ret[t]))

\* ret = s5k3l6xx_clear_error(state); if (!ret) streaming = !streaming;
s_stream_drain(t) ==
  /\ conc.pc[t] = "drain"
  /\ LET c == s5k3l6xx_clear_error(Machine(ConcInput(NoFault)))
     IN  ConcStep(IF c.ret = 0 THEN [c.m EXCEPT !.dev.streaming = ~@]
                  ELSE c.m,
                  ConcAt(conc, t, "out", c.ret))

\* out: mutex_unlock(&state->lock); return ret;  unlocking a mutex the
\* thread does not own either releases it or leaves it as it is.
s_stream_out(t) ==
  /\ conc.pc[t] = "out"
  /\ \E l \in (IF conc.lock = t THEN {0} ELSE {0, conc.lock}) :
       ConcStep(Machine(ConcInput(NoFault)),
                [ConcAt(conc, t, "idle", conc.ret[t])
                   EXCEPT !.lock = l, !.took[t] = FALSE])

\* The PM core calls s5k3l6xx_suspend for a device nobody holds a
\* reference to: if (state->streaming), read without the lock.
pm_suspend_enter ==
  /\ conc.pc[PmWorker] = "idle"
  /\ hw.rpm_active
  /\ hw.pm_usage <= 0
  /\ ConcStep(Machine(ConcInput(NoFault)),
              ConcAt(conc, PmWorker,
                     IF dev.streaming THEN "suspend_write" ELSE "suspend_power",
                     0))

\* s5k3l6xx_hw_set_stream(state, 0) of s5k3l6xx_suspend, without the lock
pm_suspend_write ==
  /\ conc.pc[PmWorker] = "suspend_write"
  /\ \E p \in ConcPlans :
       ConcStep(s5k3l6xx_hw_set_stream(Machine(ConcInput(p)), FALSE),
                ConcAt(conc, PmWorker, "suspend_power", 0))

\* return s5k3l6xx_set_power(sd, FALSE);  locks the mutex
pm_suspend_power ==
  /\ conc.pc[PmWorker] = "suspend_power"
  /\ conc.lock = 0
  /\ LET r == rpm_suspended(
                s5k3l6xx_set_power(Machine(ConcInput(NoFault)), FALSE))
     IN  ConcStep(r.m, ConcAt(conc, PmWorker, "idle", r.ret))

NextConc ==
  \/ \E t \in Callers : s_stream_enter(t)
  \/ \E t \in Callers : s_stream_get_sync(t)
  \/ \E t \in Callers : s_stream_ctrl_setup(t)
  \/ \E t \in Callers : s_stream_lock(t)
  \/ \E t \in Callers : s_stream_config(t)
  \/ \E t \in Callers : s_stream_stream(t)
  \/ \E t \in Callers : s_stream_stop_write(t)
  \/ \E t \in Callers : s_stream_drain(t)
  \/ \E t \in Callers : s_stream_out(t)
  \/ pm_suspend_enter
  \/ pm_suspend_write
  \/ pm_suspend_power

SpecConc == InitTable /\ [][NextConc]_vars

\* The caller is between its mutex_lock and its mutex_unlock.
InLockedSection(t) ==
  conc.pc[t] \in {"config", "stream", "stop_write", "drain", "out"}
  /\ conc.took[t]

\* C29: a start or stop that has taken the lock owns it until its own
\* unlock, so its register sequence runs under the lock, and the latched
\* error is 0 when it releases the lock.
C29_LockedSequence ==
  \A t \in Callers :
    InLockedSection(t) =>
      /\ conc.lock = t
      /\ conc.pc[t] = "out" => dev.error = 0

(***************************************************************************)
(* Cadence MHDP audio.  Registers and register values are named as the     *)
(* source names them; a value computed from the stream parameters is the   *)
(* record of the fields it is assembled from.                              *)
(*   mhdp.audio_info  the configuration stored by audio_hw_params          *)
(*   mhdp.num_lanes   mhdp->dp.num_lanes                                   *)
(***************************************************************************)
\* int cdns_mhdp_reg_write(): the mailbox answers 0 or an error.
cdns_mhdp_reg_write(m, addr, val) ==
  [ret |-> IF m.in.plan.k = m.n + 1 THEN m.in.plan.r ELSE 0,
   m |-> Ev([m EXCEPT !.n = @ + 1], "reg_write", addr, val,
            IF m.in.plan.k = m.n + 1 THEN m.in.plan.r ELSE 0)]

\* void cdns_mhdp_bus_write(val, mhdp, offset)
cdns_mhdp_bus_write(val, m, offset) == Ev(m, "bus_write", offset, val, 0)

\* for (i = 0; i < (audio->channels + 1) / 2; i++): for a sample width
\* other than 16 and 24 the bits are or-ed into what val held before.
RECURSIVE i2s_stts_from(_, _, _)
i2s_stts_from(m, audio, i) ==
  IF i >= (audio.channels + 1) \div 2 THEN m
  ELSE i2s_stts_from(
         cdns_mhdp_bus_write(
           [status |-> IF audio.sample_width = 16 THEN 2
                       ELSE IF audio.sample_width = 24 THEN 11 ELSE 0,
            carried |-> audio.sample_width \notin {16, 24},
            left |-> 2 * i, right |-> 2 * i + 1],
           m,
           <<"STTS_BIT_CH(0)", "STTS_BIT_CH(1)", "STTS_BIT_CH(2)",
             "STTS_BIT_CH(3)">>[i + 1]),
         audio, i + 1)

\* The switch on sample_rate has no default: val is carried over then.
cdns_mhdp_audio_config_i2s(m, audio) ==
  LET sub_pckt_num ==
        IF audio.channels = 2
        THEN (IF m.mhdp.num_lanes = 1 THEN 2 ELSE 4) ELSE 1
      i2s_port_en_val ==
        IF audio.channels = 2 THEN 1
        ELSE IF audio.channels = 4 THEN 3 ELSE 15
      smpl2pkt_cnfg ==
        [MAX_NUM_CH |-> audio.channels, NUM_OF_I2S_PORTS |-> audio.channels,
         CFG_SUB_PCKT_NUM |-> sub_pckt_num]
      src_cnfg ==
        [width |-> IF audio.sample_width = 16 THEN 0
                   ELSE IF audio.sample_width = 24 THEN 1 ELSE 2,
         AUDIO_CH_NUM |-> audio.channels,
         I2S_DEC_PORT_EN |-> i2s_port_en_val,
         TRANS_SMPL_WIDTH_32 |-> TRUE]
      com_ch_stts ==
        [SAMPLING_FREQ |->
           CASE audio.sample_rate = 32000 -> 3
             [] audio.sample_rate = 44100 -> 0
             [] audio.sample_rate = 48000 -> 2
             [] audio.sample_rate = 88200 -> 8
             [] audio.sample_rate = 96000 -> 10
             [] audio.sample_rate = 176400 -> 12
             [] audio.sample_rate = 192000 -> 14
             [] OTHER -> 0,
         carried |-> audio.sample_rate \notin
                       {32000, 44100, 48000, 88200, 96000, 176400, 192000}]
      m1 == cdns_mhdp_bus_write(0, m, "SPDIF_CTRL_ADDR")
      m2 == cdns_mhdp_bus_write("SYNC_WR_TO_CH_ZERO", m1, "FIFO_CNTL")
      m3 == cdns_mhdp_bus_write(smpl2pkt_cnfg, m2, "SMPL2PKT_CNFG")
      m4 == cdns_mhdp_bus_write(src_cnfg, m3, "AUDIO_SRC_CNFG")
      m5 == i2s_stts_from(m4, audio, 0)
      m6 == cdns_mhdp_bus_write(com_ch_stts, m5, "COM_CH_STTS_BITS")
      m7 == cdns_mhdp_bus_write("SMPL2PKT_EN", m6, "SMPL2PKT_CNTL")
  IN  cdns_mhdp_bus_write("I2S_DEC_START", m7, "AUDIO_SRC_CNTL")

cdns_mhdp_audio_config_spdif(m) ==
  Ev(Ev(cdns_mhdp_bus_write("SPDIF_ENABLE",
          cdns_mhdp_bus_write("SMPL2PKT_EN",
            cdns_mhdp_bus_write(
              [MAX_NUM_CH |-> 2, NUM_OF_I2S_PORTS |-> 0,
               CFG_SUB_PCKT_NUM |-> 4],
              cdns_mhdp_bus_write("SYNC_WR_TO_CH_ZERO", m, "FIFO_CNTL"),
              "SMPL2PKT_CNFG"),
            "SMPL2PKT_CNTL"),
          "SPDIF_CTRL_ADDR"),
        "clk_prepare_enable", 0, 0, 0),
     "clk_set_rate", 0, 0, 0)

\* After the CM_CTRL write: the block of the format, then AUDIO_PACK_EN.
audio_config_ctrl(r, audio) ==
  IF r.ret # 0 THEN r
  ELSE cdns_mhdp_reg_write(
         IF audio.format = "AFMT_I2S"
         THEN cdns_mhdp_audio_config_i2s(r.m, audio)
         ELSE IF audio.format = "AFMT_SPDIF_INT"
         THEN cdns_mhdp_audio_config_spdif(r.m)
         ELSE r.m,
         "AUDIO_PACK_CONTROL", "AUDIO_PACK_EN")

\* Mutation of audio_config_lane: the result of the CM_LANE_CTRL write is
\* not checked.
audio_config_lane_unchecked(r, audio) ==
  audio_config_ctrl(cdns_mhdp_reg_write(r.m, "CM_CTRL", 0), audio)

\* After the CM_LANE_CTRL write.
audio_config_lane(r, audio) ==
  IF r.ret # 0 THEN r
  ELSE audio_config_ctrl(cdns_mhdp_reg_write(r.m, "CM_CTRL", 0), audio)

\* The spdif clk is reset before the configuration; err_audio_config
\* reports a result other than 0.
cdns_mhdp_audio_config(m, audio) ==
  LET reset == IF audio.format = "AFMT_SPDIF_INT"
               THEN Ev(Ev(m, "reset_control_assert", 0, 0, 0),
                       "reset_control_deassert", 0, 0, 0)
               ELSE m
      r == audio_config_lane(
             cdns_mhdp_reg_write(reset, "CM_LANE_CTRL", "LANE_REF_CYC"),
             audio)
  IN  [ret |-> r.ret,
       m |-> IF r.ret # 0 THEN Ev(r.m, "DRM_DEV_ERROR", 0, 0, r.ret)
             ELSE r.m]

\* struct audio_info audio = { ... }; audio.format from daifmt->fmt
hw_params_audio(m, daifmt, params) ==
  [sample_width |-> params.sample_width, sample_rate |-> params.sample_rate,
   channels |-> params.channels, connector_type |-> m.mhdp.connector_type,
   format |-> IF daifmt = "HDMI_I2S" THEN "AFMT_I2S" ELSE "AFMT_SPDIF_EXT"]

\* if (!ret) mhdp->audio_info = audio;
hw_params_done(r, audio) ==
  [ret |-> r.ret,
   m |-> IF r.ret = 0 THEN [r.m EXCEPT !.mhdp.audio_info = audio] ELSE r.m]

audio_hw_params(m, daifmt, params) ==
  IF daifmt \notin {"HDMI_I2S", "HDMI_SPDIF"}
  THEN [ret |-> 0 - EINVAL, m |-> Ev(m, "DRM_DEV_ERROR", 0, 0, 0 - EINVAL)]
  ELSE hw_params_done(
         cdns_mhdp_audio_config(m, hw_params_audio(m, daifmt, params)),
         hw_params_audio(m, daifmt, params))

(***************************************************************************)
(* Audio configuration: the hdmi-codec calls .hw_params, the bridge        *)
(* drivers call cdns_mhdp_audio_config.                                    *)
(***************************************************************************)
AudioPlans == {NoFault} \cup {[k |-> k, r |-> r] : k \in 1 .. 3, r \in {-5, -110}}

AudioParams ==
  [sample_width : {16, 32}, sample_rate : {48000}, channels : {2, 8}]

DaiFormats == {"HDMI_I2S", "HDMI_SPDIF", "HDMI_LEFT_J"}

AudioFormats == {"AFMT_I2S", "AFMT_SPDIF_INT", "AFMT_SPDIF_EXT"}

AudioMachine(plan) ==
  [mhdp |-> mhdp, trace |-> << >>, n |-> 0, in |-> [plan |-> plan]]

AudioCommit(r, call) ==
  /\ mhdp' = r.m.mhdp
  /\ trace' = r.m.trace
  /\ last' = [call |-> call, ret |-> r.ret]
  /\ entry' = [dev |-> dev, hw |-> hw, mhdp |-> mhdp]
  /\ UNCHANGED <<dev, hw, debug, try_fmt, mf, scenario, conc, tps>>

hw_params ==
  /\ Idle
  /\ \E daifmt \in DaiFormats, params \in AudioParams, p \in AudioPlans :
       AudioCommit(audio_hw_params(AudioMachine(p), daifmt, params),
                   Call("audio_hw_params", FALSE, 0,
                        [fmt |-> daifmt, params |-> params], 0))

audio_config ==
  /\ Idle
  /\ \E format \in AudioFormats, params \in AudioParams, p \in AudioPlans :
       AudioCommit(
         cdns_mhdp_audio_config(AudioMachine(p),
           [hw_params_audio(AudioMachine(p), "HDMI_I2S", params)
              EXCEPT !.format = format]),
         Call("cdns_mhdp_audio_config", FALSE, 0,
              [hw_params_audio(AudioMachine(p), "HDMI_I2S", params)
                 EXCEPT !.format = format], 0))

\* The bridge after probe: audio_info as allocated, one or four lanes.
InitAudio ==
  /\ dev = InitDev(2, 0)
  /\ hw = InitHw
  /\ debug = 0
  /\ try_fmt = NoMf
  /\ mf = NoMf
  /\ trace = << >>
  /\ last = NoCall
  /\ entry = NoEntry
  /\ scenario = NoScenario
  /\ conc = NoConc
  /\ \E lanes \in {1, 4} :
       mhdp = [audio_info |->
                 [sample_width |-> 0, sample_rate |-> 0, channels |-> 0,
                  connector_type |-> 0, format |-> "AFMT_I2S"],
               num_lanes |-> lanes,
               connector_type |-> "DRM_MODE_CONNECTOR_DisplayPort"]
  /\ tps = NoTps

NextAudio ==
  \/ return_to_caller
  \/ hw_params
  \/ audio_config

SpecAudio == InitAudio /\ [][NextAudio]_vars

IsAudioCall == last.call.op \in {"audio_hw_params", "cdns_mhdp_audio_config"}

\* The audio_info the call configures.
AudioOfCall ==
  IF last.call.op = "cdns_mhdp_audio_config" THEN last.call.req
  ELSE [sample_width |-> last.call.req.params.sample_width,
        sample_rate |-> last.call.req.params.sample_rate,
        channels |-> last.call.req.params.channels,
        connector_type |-> entry.mhdp.connector_type,
        format |-> IF last.call.req.fmt = "HDMI_I2S" THEN "AFMT_I2S"
                   ELSE "AFMT_SPDIF_EXT"]

\* The call reached cdns_mhdp_audio_config.
AudioConfigured ==
  /\ IsAudioCall
  /\ last.call.op = "audio_hw_params"
       => last.call.req.fmt \in {"HDMI_I2S", "HDMI_SPDIF"}

IsAudioWrite(e) == e[1] \in {"reg_write", "bus_write"}
IsBlockStep(e) == e[1] \in {"bus_write", "clk_prepare_enable", "clk_set_rate"}

AudioWrites == SelectSeq(trace, IsAudioWrite)

EarlyOk ==
  /\ Len(AudioWrites) >= 2
  /\ AudioWrites[1][4] = 0
  /\ AudioWrites[2][4] = 0

IsPackEn(e) ==
  e[1] = "reg_write" /\ e[2] = "AUDIO_PACK_CONTROL" /\ e[3] = "AUDIO_PACK_EN"

\* C30: cdns_mhdp_audio_config writes CM_LANE_CTRL then CM_CTRL first; the
\* I2S block runs for AFMT_I2S and the SPDIF block for AFMT_SPDIF_INT, and
\* only after both writes succeeded; the AUDIO_PACK_EN write follows as the
\* last write; when an early write fails nothing more is written and its
\* error is returned; audio_hw_params stores the new audio_info exactly
\* when the configuration returned 0.
C30_AudioConfigOrdered ==
  /\ AudioConfigured =>
       /\ Len(AudioWrites) >= 1
       /\ AudioWrites[1][1] = "reg_write" /\ AudioWrites[1][2] = "CM_LANE_CTRL"
       /\ AudioWrites[1][4] # 0 =>
            Len(AudioWrites) = 1 /\ last.ret = AudioWrites[1][4]
       /\ AudioWrites[1][4] = 0 =>
            /\ Len(AudioWrites) >= 2
            /\ AudioWrites[2][1] = "reg_write" /\ AudioWrites[2][2] = "CM_CTRL"
            /\ AudioWrites[2][4] # 0 =>
                 Len(AudioWrites) = 2 /\ last.ret = AudioWrites[2][4]
       /\ ~EarlyOk => \A i \in 1 .. Len(trace) : ~IsBlockStep(trace[i])
       /\ EarlyOk =>
            /\ IsPackEn(AudioWrites[Len(AudioWrites)])
            /\ last.ret = AudioWrites[Len(AudioWrites)][4]
            /\ \A i \in 3 .. Len(AudioWrites) - 1 :
                 AudioWrites[i][1] = "bus_write"
            /\ (\E i \in 1 .. Len(trace) :
                  trace[i][1] = "bus_write" /\ trace[i][2] = "AUDIO_SRC_CNTL")
                 <=> AudioOfCall.format = "AFMT_I2S"
            /\ (\E i \in 1 .. Len(trace) : trace[i][1] = "clk_prepare_enable")
                 <=> AudioOfCall.format = "AFMT_SPDIF_INT"
            /\ AudioOfCall.format = "AFMT_SPDIF_EXT" => Len(AudioWrites) = 3
  /\ (IsAudioCall /\ last.call.op = "audio_hw_params") =>
       /\ last.ret = 0 =>
            mhdp = [entry.mhdp EXCEPT !.audio_info = AudioOfCall]
       /\ last.ret # 0 => mhdp = entry.mhdp
  /\ (IsAudioCall /\ last.call.op = "cdns_mhdp_audio_config") =>
       mhdp = entry.mhdp

\* An audio_hw_params call for I2S whose CM_CTRL write failed while another
\* configuration was stored.
C30_Witness ==
  /\ last.call.op = "audio_hw_params"
  /\ last.call.req.fmt = "HDMI_I2S"
  /\ Len(AudioWrites) = 2
  /\ AudioWrites[2][4] # 0
  /\ last.ret # 0
  /\ mhdp.audio_info # AudioOfCall
  /\ mhdp.audio_info.channels # 0

\* C31: the driver holds one runtime-PM reference while streaming is true
\* and none while it is false, and the count never goes below 0.
C31_PmRefBalance ==
  /\ hw.pm_usage >= 0
  /\ hw.pm_usage = (IF dev.streaming THEN 1 ELSE 0)

(***************************************************************************)
(* Two callers that each call .s_stream(1) once on an idle device.         *)
(***************************************************************************)
\* The caller has not called yet.
start_once(t) == ~conc.on[t] /\ s_stream_call(t, TRUE)

NextStarts ==
  \/ \E t \in Callers : start_once(t)
  \/ \E t \in Callers : s_stream_get_sync(t)
  \/ \E t \in Callers : s_stream_ctrl_setup(t)
  \/ \E t \in Callers : s_stream_lock(t)
  \/ \E t \in Callers : s_stream_config(t)
  \/ \E t \in Callers : s_stream_stream(t)
  \/ \E t \in Callers : s_stream_drain(t)
  \/ \E t \in Callers : s_stream_out(t)

SpecStarts == InitTable /\ [][NextStarts]_vars

\* Both starts have returned 0.
BothStarted ==
  \A t \in Callers : conc.on[t] /\ conc.pc[t] = "idle" /\ conc.ret[t] = 0

\* C32: when the concurrent starts have all returned success the device
\* streams and the driver holds exactly one runtime-PM reference.
C32_ConcurrentStarts ==
  BothStarted => dev.streaming /\ hw.pm_usage = 1

IsLock(e) == e[1] = "mutex_lock"
IsUnlock(e) == e[1] = "mutex_unlock"

\* mutex_lock calls minus mutex_unlock calls among the first i steps of
\* the handler.
LockDepth(i) ==
  Len(SelectSeq(SubSeq(trace, 1, i), IsLock))
    - Len(SelectSeq(SubSeq(trace, 1, i), IsUnlock))

\* C33: in every operation the lock is released only while the operation
\* holds it, and once per acquisition: no mutex_unlock without a
\* mutex_lock of the same call before it, and none left held at return.
C33_UnlockOnlyHeld ==
  /\ \A i \in 1 .. Len(trace) : LockDepth(i) \in {0, 1}
  /\ LockDepth(Len(trace)) = 0

\* C34: the latched transport error is 0 when .s_power, .s_stream or
\* .s_ctrl is entered: nothing latched by probe or by the suspend and
\* resume callbacks is carried into the operation.
C34_ErrorNoneAtEntry ==
  last.call.op \in {"set_power", "s_stream", "s_ctrl"} => entry.dev.error = 0

\* C35: the power counter is 0 or 1, and the driver's enable counts of the
\* supply regulator and of the input clock equal it.
C35_PowerAgreesWithHardware ==
  /\ dev.power \in {0, 1}
  /\ hw.supply = dev.power
  /\ hw.clock = dev.power

(***************************************************************************)
(* System sleep (SpecSleep): the PM core calls s5k3l6xx_suspend and, on    *)
(* wake-up, s5k3l6xx_resume; no subdev operation runs in between.          *)
(***************************************************************************)
\* The resume callback is called after a suspend callback that returned 0.
suspend_resume(m) ==
  LET s == s5k3l6xx_suspend(m)
  IN  IF s.ret # 0 THEN s
      ELSE s5k3l6xx_resume(Ev(s.m, "s5k3l6xx_resume", 0, 0, 0))

sleep_cycle ==
  /\ Idle
  /\ \E in \in BusAndPower(2) :
       Commit(suspend_resume(Machine(in)),
              Call("suspend_resume", FALSE, 0, NoMf, 0), NoMf)

NextSleep ==
  \/ return_to_caller
  \/ ctrl_set_power
  \/ ctrl_start_streaming
  \/ ctrl_stop_streaming
  \/ sleep_cycle

SpecSleep == InitTable /\ [][NextSleep]_vars

\* Where the resume callback begins in the trace, 0 if it was not called.
ResumeAt ==
  IF \E i \in 1 .. Len(trace) : trace[i][1] = "s5k3l6xx_resume"
  THEN CHOOSE i \in 1 .. Len(trace) : trace[i][1] = "s5k3l6xx_resume"
  ELSE 0

SleptAndResumed ==
  last.call.op = "suspend_resume" /\ ResumeAt > 0 /\ last.ret = 0

\* C36: after a suspend and a successful resume, a device that was
\* On-Streaming has streaming true and MODE_SELECT written with the
\* stream-enable value by the resume; a device that was not streaming gets
\* no stream-enable write.
C36_ResumeRestoresStreaming ==
  SleptAndResumed =>
    /\ (entry.dev.power = 1 /\ entry.dev.streaming) =>
         /\ dev.streaming
         /\ \E j \in StreamEnableWrites : j > ResumeAt
    /\ ~entry.dev.streaming => StreamEnableWrites = {}

(***************************************************************************)
(* The debug override table under concurrent use (SpecRace): two callers,  *)
(* each writing the debugfs files add_value and clear or starting the      *)
(* stream; debug_add, debug_clear and the loop of                          *)
(* s5k3l6xx_submit_regstable one memory access at a time.  The table is    *)
(* short or within one entry of its capacity.                              *)
(***************************************************************************)
\* A table one entry short of its capacity.
NearlyFullTable ==
  [entry_count |-> REGSTABLE_SIZE - 1,
   entries |-> [i \in 1 .. REGSTABLE_SIZE - 1 |->
                  [address |-> S5K3L6XX_REG_AF, value |-> 66]]]

\* debug_add up to its capacity test: the value is a byte.
debug_add_check(t) ==
  /\ conc.pc[t] = "idle"
  /\ \/ dev.debug_regs.entry_count < MaxOverrides
     \/ dev.debug_regs.entry_count >= REGSTABLE_SIZE - 1
  /\ ConcStep(Machine(ConcInput(NoFault)),
              IF dev.debug_regs.entry_count >= REGSTABLE_SIZE
              THEN ConcAt(conc, t, "idle", 0 - EFBIG)
              ELSE ConcAt(conc, t, "add_store", 0))

\* entries[entry_count] = entry; a store past the last element of the
\* array lands behind it.
debug_add_store(t) ==
  /\ conc.pc[t] = "add_store"
  /\ ConcStep([Machine(ConcInput(NoFault)) EXCEPT !.dev.debug_regs.entries =
                 IF dev.debug_regs.entry_count < Len(@)
                 THEN [@ EXCEPT ![dev.debug_regs.entry_count + 1] =
                         [address |-> dev.debug_address, value |-> 66]]
                 ELSE Append(@, [address |-> dev.debug_address,
                                 value |-> 66])],
              ConcAt(conc, t, "add_count", 0))

\* entry_count++; return 0;
debug_add_count(t) ==
  /\ conc.pc[t] = "add_count"
  /\ ConcStep([Machine(ConcInput(NoFault))
                 EXCEPT !.dev.debug_regs.entry_count = @ + 1],
              ConcAt(conc, t, "idle", 0))

\* debug_clear: entry_count = 0; the entries stay in the array.
debug_clear_count(t) ==
  /\ conc.pc[t] = "idle"
  /\ dev.debug_regs.entry_count > 0
  /\ ConcStep([Machine(ConcInput(NoFault))
                 EXCEPT !.dev.debug_regs.entry_count = 0],
              ConcAt(conc, t, "idle", 0))

\* One .s_stream(1) of each caller, while the table is short.
race_start(t) ==
  /\ dev.debug_regs.entry_count <= MaxOverrides
  /\ start_once(t)

\* s5k3l6xx_hw_set_config up to its call of s5k3l6xx_submit_regstable.
hw_set_config_regs(t) ==
  /\ conc.pc[t] = "config"
  /\ ConcStep(s5k3l6xx_write(
                s5k3l6xx_submit_regs(
                  s5k3l6xx_submit_regs(set_config_dbg(Machine(ConcInput(NoFault))),
                                       Frame(dev.frame_fmt).streamregs),
                  setstream),
                S5K3L6XX_REG_LANE_MODE, (dev.nlanes - 1) % 256),
              [ConcAt(conc, t, "submit_test", conc.ret[t]) EXCEPT !.i[t] = 0])

\* i < regs->entry_count
submit_regstable_test(t) ==
  /\ conc.pc[t] = "submit_test"
  /\ ConcStep(Machine(ConcInput(NoFault)),
              ConcAt(conc, t,
                     IF conc.i[t] < dev.debug_regs.entry_count
                     THEN "submit_entry" ELSE "stream", conc.ret[t]))

\* The loop body for entries[i], and i++; an element never stored is as
\* devm_kzalloc left it.
submit_regstable_body(t) ==
  /\ conc.pc[t] = "submit_entry"
  /\ ConcStep(submit_regstable_entry(Machine(ConcInput(NoFault)),
                IF conc.i[t] < Len(dev.debug_regs.entries)
                THEN dev.debug_regs.entries[conc.i[t] + 1]
                ELSE [address |-> 0, value |-> 0]),
              [ConcAt(conc, t, "submit_test", conc.ret[t])
                 EXCEPT !.i[t] = @ + 1])

InitRace ==
  /\ \E regs \in {[entry_count |-> 0, entries |-> << >>], NearlyFullTable} :
       dev = [InitDev(2, 0) EXCEPT !.debug_regs = regs]
  /\ hw = InitHw
  /\ debug = 0
  /\ try_fmt = NoMf
  /\ mf = NoMf
  /\ trace = << >>
  /\ last = NoCall
  /\ entry = NoEntry
  /\ scenario = NoScenario
  /\ conc = NoConc
  /\ mhdp = NoMhdp
  /\ tps = NoTps

NextRace ==
  \/ \E t \in Callers : debug_add_check(t)
  \/ \E t \in Callers : debug_add_store(t)
  \/ \E t \in Callers : debug_add_count(t)
  \/ \E t \in Callers : debug_clear_count(t)
  \/ \E t \in Callers : race_start(t)
  \/ \E t \in Callers : s_stream_get_sync(t)
  \/ \E t \in Callers : s_stream_ctrl_setup(t)
  \/ \E t \in Callers : s_stream_lock(t)
  \/ \E t \in Callers : hw_set_config_regs(t)
  \/ \E t \in Callers : submit_regstable_test(t)
  \/ \E t \in Callers : submit_regstable_body(t)
  \/ \E t \in Callers : s_stream_stream(t)
  \/ \E t \in Callers : s_stream_drain(t)
  \/ \E t \in Callers : s_stream_out(t)

SpecRace == InitRace /\ [][NextRace]_vars

\* C37: the override count never exceeds REGSTABLE_SIZE, no entry is stored
\* past the last element of the array, and a start never reads an entry at
\* or beyond the current count.
C37_TableBounds ==
  /\ dev.debug_regs.entry_count <= REGSTABLE_SIZE
  /\ Len(dev.debug_regs.entries) <= REGSTABLE_SIZE
  /\ \A t \in Callers :
       conc.pc[t] = "submit_entry" => conc.i[t] < dev.debug_regs.entry_count

(***************************************************************************)
(* The TPS6598x USB Type-C port controller (SpecTps): the threaded         *)
(* interrupt handler with the helpers it calls.  tps holds struct          *)
(* tps6598x: partner is NULL, a registered partner ("partner") or the      *)
(* ERR_PTR that typec_register_partner returned; pwr_status is the power   *)
(* operation mode of the last power status read; terms is the active       *)
(* contract.  Event registers are sets of the event bits that are set.     *)
(* An input gives the register contents, the bus transfer that fails and   *)
(* the outcome of typec_register_partner.                                  *)
(***************************************************************************)
\* The longest sequence of bus transfers of one handler run on the event
\* sets below.
MaxTpsTransfers == 11

TpsPlans == {NoFault} \cup {[k |-> k, r |-> -5] : k \in 1 .. MaxTpsTransfers}

Events1 ==
  {{}, {"PLUG_EVENT"}, {"PLUG_EVENT", "POWER_STATUS_UPDATE"},
   {"DATA_STATUS_UPDATE"}, {"NEW_CONTRACT_AS_CONSUMER", "HARD_RESET"},
   {"STATUS_UPDATE"}}

Events2 == {{}, {"PP_SWITCH_CHANGED"}}

\* plug: TPS_STATUS_PLUG_PRESENT; conn: the connection state is the one
\* the handler compares with; pd: the power operation mode is PD; dp:
\* TPS_DATA_STATUS_DP_CONNECTION; pdo_known: the contract type is one of
\* the three the driver decodes; partner_ok: typec_register_partner
\* returns a partner.
TpsInputs ==
  [plan : TpsPlans, event1 : Events1, event2 : Events2, plug : BOOLEAN,
   conn : BOOLEAN, pd : BOOLEAN, dp : BOOLEAN, pdo_known : BOOLEAN,
   partner_ok : BOOLEAN]

TpsMachine(in) == [tps |-> tps, trace |-> << >>, n |-> 0, in |-> in]

\* regmap_raw_read through tps6598x_block_read
tps6598x_block_read(m, reg) ==
  [ret |-> IF m.in.plan.k = m.n + 1 THEN m.in.plan.r ELSE 0,
   m |-> Bus(m, "block_read", reg, 0,
             IF m.in.plan.k = m.n + 1 THEN m.in.plan.r ELSE 0)]

\* regmap_raw_write through tps6598x_block_write
tps6598x_block_write(m, reg, val) ==
  [ret |-> IF m.in.plan.k = m.n + 1 THEN m.in.plan.r ELSE 0,
   m |-> Bus(m, "block_write", reg, val,
             IF m.in.plan.k = m.n + 1 THEN m.in.plan.r ELSE 0)]

tps6598x_mask_reg(m, reg, set) ==
  LET rd == tps6598x_block_read(m, reg)
  IN  IF rd.ret < 0 THEN rd
      ELSE tps6598x_block_write(rd.m, reg, set)

\* ret |= ...: the result is other than 0 when one of the two is
tps6598x_mask_cc_int(m, disable) ==
  LET r1 == tps6598x_mask_reg(m, "TPS_REG_INT_MASK1", ~disable)
      r2 == tps6598x_mask_reg(r1.m, "TPS_REG_INT_MASK2", ~disable)
  IN  [ret |-> IF r1.ret # 0 THEN r1.ret ELSE r2.ret, m |-> r2.m]

\* tps6598x_connect from typec_set_pwr_opmode on; PTR_ERR is -12 (out of
\* memory) when the registration fails.
connect_register(m) ==
  LET reg == Ev([m EXCEPT !.tps.partner =
                   IF m.in.partner_ok THEN "partner" ELSE "ERR_PTR"],
                "typec_register_partner", 0, 0,
                IF m.in.partner_ok THEN 0 ELSE -12)
  IN  IF ~m.in.partner_ok THEN [ret |-> -12, m |-> reg]
      ELSE [ret |-> 0,
            m |-> Ev(tps6598x_mask_cc_int(reg, FALSE).m,
                     "power_supply_changed", 0, 0, 0)]

tps6598x_connect(m) ==
  IF m.tps.partner # "NULL" THEN [ret |-> 0, m |-> m]
  ELSE IF m.tps.pwr_status = "PD"
  THEN LET id == tps6598x_block_read(m, "TPS_REG_RX_IDENTITY_SOP")
       IN  IF id.ret # 0 THEN id ELSE connect_register(id.m)
  ELSE connect_register(m)

tps6598x_disconnect(m) ==
  LET un == IF m.tps.partner # "ERR_PTR"
            THEN Ev(m, "typec_unregister_partner", m.tps.partner, 0, 0)
            ELSE m
  IN  Ev(tps6598x_mask_cc_int(
           [un EXCEPT !.tps.partner = "NULL", !.tps.terms = "none"],
           TRUE).m,
         "power_supply_changed", 0, 0, 0)

tps6598x_get_active_pd_contract(m) ==
  LET rd == tps6598x_block_read(m, "TPS_REG_ACTIVE_CONTRACT")
  IN  IF rd.ret # 0 THEN rd
      ELSE IF ~m.in.pdo_known
      THEN [ret |-> 0 - EINVAL, m |-> [rd.m EXCEPT !.tps.terms = "none"]]
      ELSE [ret |-> 0, m |-> [rd.m EXCEPT !.tps.terms = "contract"]]

\* The handler from "Handle plug insert or removal" to err_clear_ints.
interrupt_plug(m, ev, psy) ==
  LET plug == IF "PLUG_EVENT" \notin ev THEN m
              ELSE IF m.in.plug
              THEN tps6598x_connect(Ev(m, "tps6598x_connect", 0, 0, 0)).m
              ELSE tps6598x_disconnect(Ev(m, "tps6598x_disconnect", 0, 0, 0))
      reset == IF "HARD_RESET" \in ev
               THEN [plug EXCEPT !.tps.terms = "none"] ELSE plug
      mask == IF "STATUS_UPDATE" \in ev
              THEN tps6598x_block_read(reset, "TPS_REG_INT_MASK1").m
              ELSE reset
  IN  [m |-> IF "STATUS_UPDATE" \in ev /\ (~m.in.plug \/ ~m.in.conn)
             THEN tps6598x_mask_cc_int(mask, TRUE).m ELSE mask,
       psy_changed |-> psy \/ "HARD_RESET" \in ev,
       failed |-> FALSE]

\* The handler from the status read to err_clear_ints; failed: a goto
\* err_clear_ints was taken.
interrupt_events(m, ev) ==
  LET st == tps6598x_block_read(m, "TPS_REG_STATUS")
      power == ev \cap {"POWER_STATUS_UPDATE", "PP_SWITCH_CHANGED"} # {}
      pw == IF power THEN tps6598x_block_read(st.m, "TPS_REG_POWER_STATUS")
            ELSE st
      m1 == IF power
            THEN [pw.m EXCEPT !.tps.pwr_status =
                                IF m.in.pd THEN "PD" ELSE "USB"]
            ELSE pw.m
      data == "DATA_STATUS_UPDATE" \in ev
      ds == IF data THEN tps6598x_block_read(m1, "TPS_REG_DATA_STATUS")
            ELSE [ret |-> 0, m |-> m1]
      m2 == IF data THEN [ds.m EXCEPT !.tps.dp = m.in.dp] ELSE ds.m
      contract == "NEW_CONTRACT_AS_CONSUMER" \in ev
      pd == IF contract THEN tps6598x_get_active_pd_contract(m2)
            ELSE [ret |-> 0, m |-> m2]
  IN  IF st.ret # 0
      THEN [m |-> st.m, psy_changed |-> FALSE, failed |-> TRUE]
      ELSE IF pw.ret < 0
      THEN [m |-> pw.m, psy_changed |-> FALSE, failed |-> TRUE]
      ELSE IF ds.ret < 0
      THEN [m |-> ds.m, psy_changed |-> power, failed |-> TRUE]
      ELSE IF pd.ret < 0
      THEN [m |-> pd.m, psy_changed |-> power, failed |-> TRUE]
      ELSE interrupt_plug(pd.m, ev, power \/ contract)

\* err_unlock:
interrupt_unlock(m, psy_changed) ==
  LET un == Ev(m, "mutex_unlock", 0, 0, 0)
  IN  [ret |-> 1,
       m |-> IF psy_changed THEN Ev(un, "power_supply_changed", 0, 0, 0)
             ELSE un]

\* The handler never reaches err_clear_ints from a goto.
interrupt_clear_unless_failed(b, event1, event2) ==
  IF b.failed THEN interrupt_unlock(b.m, b.psy_changed)
  ELSE interrupt_unlock(
         tps6598x_block_write(
           tps6598x_block_write(b.m, "TPS_REG_INT_CLEAR1", event1).m,
           "TPS_REG_INT_CLEAR2", event2).m,
         b.psy_changed)

\* err_clear_ints:
interrupt_clear_ints(b, event1, event2) ==
  interrupt_unlock(
    tps6598x_block_write(
      tps6598x_block_write(b.m, "TPS_REG_INT_CLEAR1", event1).m,
      "TPS_REG_INT_CLEAR2", event2).m,
    b.psy_changed)

\* IRQ_HANDLED is 1.
tps6598x_interrupt(m) ==
  LET e1 == tps6598x_block_read(Ev(m, "mutex_lock", 0, 0, 0),
                                "TPS_REG_INT_EVENT1")
      e2 == tps6598x_block_read(e1.m, "TPS_REG_INT_EVENT2")
  IN  IF e1.ret # 0 \/ e2.ret # 0 THEN interrupt_unlock(e2.m, FALSE)
      ELSE interrupt_clear_ints(
             interrupt_events(e2.m, m.in.event1 \cup m.in.event2),
             m.in.event1, m.in.event2)

TpsCommit(r, call) ==
  /\ tps' = r.m.tps
  /\ trace' = r.m.trace
  /\ last' = [call |-> call, ret |-> r.ret]
  /\ entry' = [dev |-> dev, hw |-> hw, tps |-> tps]
  /\ UNCHANGED <<dev, hw, debug, try_fmt, mf, scenario, conc, mhdp>>

interrupt ==
  /\ Idle
  /\ \E in \in TpsInputs :
       TpsCommit(tps6598x_interrupt(TpsMachine(in)),
                 Call("tps6598x_interrupt", FALSE, 0, in, 0))

\* The port after a probe that found no plug present.
InitTps ==
  /\ dev = InitDev(2, 0)
  /\ hw = InitHw
  /\ debug = 0
  /\ try_fmt = NoMf
  /\ mf = NoMf
  /\ trace = << >>
  /\ last = NoCall
  /\ entry = NoEntry
  /\ scenario = NoScenario
  /\ conc = NoConc
  /\ mhdp = NoMhdp
  /\ tps = NoTps

NextTps ==
  \/ return_to_caller
  \/ interrupt

SpecTps == InitTps /\ [][NextTps]_vars

IsInterrupt == last.call.op = "tps6598x_interrupt"

\* The handler called tps6598x_connect / tps6598x_disconnect.
RanConnect ==
  /\ IsInterrupt
  /\ \E i \in 1 .. Len(trace) : trace[i][1] = "tps6598x_connect"

RanDisconnect ==
  /\ IsInterrupt
  /\ \E i \in 1 .. Len(trace) : trace[i][1] = "tps6598x_disconnect"

Registrations ==
  {i \in 1 .. Len(trace) : trace[i][1] = "typec_register_partner"}

\* C38: the partner field is NULL or a registered partner; a connect that
\* fails leaves it NULL, a connect while a partner exists registers
\* nothing, and a disconnect leaves it NULL.
C38_PartnerNullOrRegistered ==
  /\ tps.partner \in {"NULL", "partner"}
  /\ RanConnect /\ entry.tps.partner = "partner" => Registrations = {}
  /\ RanDisconnect => tps.partner = "NULL"

\* The value of the first successful read of register reg in the trace is
\* the input's; Reads and Writes are the positions of the bus transfers.
Reads(reg) ==
  {i \in 1 .. Len(trace) : trace[i][1] = "block_read" /\ trace[i][2] = reg}

Writes(reg) ==
  {i \in 1 .. Len(trace) : trace[i][1] = "block_write" /\ trace[i][2] = reg}

EventsRead ==
  /\ IsInterrupt
  /\ \A reg \in {"TPS_REG_INT_EVENT1", "TPS_REG_INT_EVENT2"} :
       \E i \in Reads(reg) : trace[i][4] = 0

Unlocks == {i \in 1 .. Len(trace) : trace[i][1] = "mutex_unlock"}

\* Register reg is written once, with value val, before the unlock.
ClearedWith(reg, val) ==
  /\ Cardinality(Writes(reg)) = 1
  /\ \A i \in Writes(reg) :
       /\ trace[i][3] = val
       /\ \A u \in Unlocks : i < u

\* A read after the event reads failed and the handler went to
\* err_clear_ints.
LaterReadFailed ==
  /\ EventsRead
  /\ \E i \in 1 .. Len(trace) :
       /\ trace[i][1] = "block_read"
       /\ trace[i][2] \in {"TPS_REG_STATUS", "TPS_REG_POWER_STATUS",
                           "TPS_REG_DATA_STATUS", "TPS_REG_ACTIVE_CONTRACT"}
       /\ trace[i][4] # 0

\* C39: when both event registers were read, the handler writes event1 to
\* INT_CLEAR1 and event2 to INT_CLEAR2, once each and before it releases
\* the lock, whether or not a later read failed; when an event read
\* failed it writes neither register.
C39_EventsCleared ==
  IsInterrupt =>
    /\ Cardinality(Unlocks) = 1
    /\ EventsRead =>
         /\ ClearedWith("TPS_REG_INT_CLEAR1", last.call.req.event1)
         /\ ClearedWith("TPS_REG_INT_CLEAR2", last.call.req.event2)
    /\ ~EventsRead =>
         Writes("TPS_REG_INT_CLEAR1") \cup Writes("TPS_REG_INT_CLEAR2") = {}

\* A handler run whose status read failed after event bits were read, and
\* that has cleared them.
C39_Witness ==
  /\ LaterReadFailed
  /\ last.call.req.event1 # {}
  /\ ClearedWith("TPS_REG_INT_CLEAR1", last.call.req.event1)

====
